---- MODULE Spec2Model ----
(***************************************************************************)
(* SimpleDB (src/simpledb) behind the locked facade of the finance tracker *)
(* (src/finance_tracker/app/db_core.py): the catalog, the per-table heap   *)
(* log with tombstones, the executor with its constraint batch, and the    *)
(* caller threads that run statements under the process-wide lock.         *)
(***************************************************************************)
EXTENDS Integers, Sequences, FiniteSets, TLC

(***************************************************************************)
(* Values: Python int / str / bool / None, tagged by their type.           *)
(***************************************************************************)
Null == [t |-> "null", v |-> 0]
IntV(i) == [t |-> "int", v |-> i]
StrV(s) == [t |-> "str", v |-> s]
BoolV(b) == [t |-> "bool", v |-> b]

IsNone(x) == x.t = "null"
\* isinstance(x, int): bool is a subclass of int
IsInt(x) == x.t \in {"int", "bool"}
\* int(x) for an int or a bool
AsInt(x) == IF x.t = "bool" THEN (IF x.v THEN 1 ELSE 0) ELSE x.v
\* Python ==, which is also the equality of set membership: True == 1
PyEq(a, b) ==
    IF IsInt(a) /\ IsInt(b) THEN AsInt(a) = AsInt(b)
    ELSE a.t = b.t /\ a.v = b.v

\* dict.get(k): None for a missing key
Get(d, k) == IF k \in DOMAIN d THEN d[k] ELSE Null
EmptyMap == [k \in {} |-> Null]
Put(m, k, val) == [x \in (DOMAIN m) \cup {k} |-> IF x = k THEN val ELSE m[x]]
Range(s) == {s[i] : i \in DOMAIN s}

(***************************************************************************)
(* Errors and results.                                                     *)
(***************************************************************************)
NoErr == [err |-> "", msg |-> ""]
ExecutionError(m) == [err |-> "ExecutionError", msg |-> m]
ConstraintError(m) == [err |-> "ConstraintError", msg |-> m]
AttributeError(m) == [err |-> "AttributeError", msg |-> m]
Failed(e) == e.err # ""

CommandOk(n) == [err |-> "", msg |-> "OK", rows_affected |-> n]
QueryResult(columns, rows) == [err |-> "", msg |-> "OK", columns |-> columns, rows |-> rows]

(***************************************************************************)
(* AST: type specifications and column definitions.                        *)
(***************************************************************************)
TypeSpec(name, params) == [name |-> name, params |-> params]
ColumnDef(name, typ, not_null, unique, primary_key) ==
    [name |-> name, typ |-> typ, not_null |-> not_null, unique |-> unique,
     primary_key |-> primary_key]
ColumnRef(column, table) == [column |-> column, table |-> table]
\* ColumnRef.table = None
NoTable == ""
Condition(left, op, right) == [left |-> left, op |-> op, right |-> right]
\* Statement.where = None
NoWhere == [none |-> TRUE, conditions |-> <<>>]
WhereClause(conditions) == [none |-> FALSE, conditions |-> conditions]
Assignment(column, value) == [column |-> column, value |-> value]

(***************************************************************************)
(* Catalog.                                                                *)
(***************************************************************************)
SUPPORTED_TYPES == {"INTEGER", "VARCHAR", "TEXT", "DATE", "BOOLEAN"}

\* str.upper() on the type names that occur
Upper(s) ==
    CASE s = "integer" -> "INTEGER"
      [] s = "varchar" -> "VARCHAR"
      [] s = "text" -> "TEXT"
      [] s = "date" -> "DATE"
      [] s = "boolean" -> "BOOLEAN"
      [] OTHER -> s

IndexMeta(name, table_name, column_name) ==
    [name |-> name, table_name |-> table_name, column_name |-> column_name]
TableMeta(name, columns, indexes) ==
    [name |-> name, columns |-> columns, indexes |-> indexes]

column_names(table) == {table.columns[i].name : i \in DOMAIN table.columns}

\* the column definition of a name, or none
HasColumn(table, name) == name \in column_names(table)
get_column(table, name) ==
    table.columns[CHOOSE i \in DOMAIN table.columns :
        /\ table.columns[i].name = name
        /\ \A j \in DOMAIN table.columns : table.columns[j].name = name => i <= j]

\* the name of the first primary-key column (a str value), or None
primary_key_column(table) ==
    LET pk_cols == SelectSeq(table.columns, LAMBDA c : c.primary_key)
    IN IF pk_cols = <<>> THEN Null ELSE StrV(pk_cols[1].name)

Catalog_empty == [version |-> 1, tables |-> EmptyMap, indexes |-> EmptyMap]

\* catalog.json: absent, or the JSON object Catalog.save wrote
NoCatalogFile == [exists |-> FALSE, raw |-> EmptyMap]

\* as col_to_dict, but the unique flag is not written
col_to_dict_NoUnique(c) ==
    [name |-> c.name, typ |-> [name |-> c.typ.name, params |-> c.typ.params],
     not_null |-> c.not_null, unique |-> FALSE, primary_key |-> c.primary_key]

col_to_dict(c) ==
    [name |-> c.name, typ |-> [name |-> c.typ.name, params |-> c.typ.params],
     not_null |-> c.not_null, unique |-> c.unique, primary_key |-> c.primary_key]

idx_to_dict(idx) == [table_name |-> idx.table_name, column_name |-> idx.column_name]

\* Catalog.save: the file content
Catalog_save(cat) ==
    [exists |-> TRUE,
     raw |-> [version |-> cat.version,
              tables |-> [tn \in DOMAIN cat.tables |->
                  [columns |-> [i \in DOMAIN cat.tables[tn].columns |->
                                    col_to_dict(cat.tables[tn].columns[i])],
                   indexes |-> [iname \in DOMAIN cat.tables[tn].indexes |->
                                    idx_to_dict(cat.tables[tn].indexes[iname])]]],
              indexes |-> [iname \in DOMAIN cat.indexes |->
                               idx_to_dict(cat.indexes[iname])]]]

\* the per-table index entries of the file, merged into one map (a later table
\* overwrites an earlier one under the same index name; names are unique
\* whenever the file was written by Catalog_save of a validated catalog)
LoadTableIndexes(raw) ==
    LET names == UNION {DOMAIN raw.tables[tn].indexes : tn \in DOMAIN raw.tables}
        owner(iname) == CHOOSE tn \in DOMAIN raw.tables :
                            iname \in DOMAIN raw.tables[tn].indexes
    IN [iname \in names |->
           IndexMeta(iname, raw.tables[owner(iname)].indexes[iname].table_name,
                     raw.tables[owner(iname)].indexes[iname].column_name)]

\* Catalog.load
Catalog_load(file) ==
    IF ~file.exists THEN Catalog_empty
    ELSE LET raw == file.raw
             tables == [tn \in DOMAIN raw.tables |->
                 TableMeta(tn,
                     [i \in DOMAIN raw.tables[tn].columns |->
                         LET c == raw.tables[tn].columns[i]
                         IN ColumnDef(c.name, TypeSpec(c.typ.name, c.typ.params),
                                      c.not_null, c.unique, c.primary_key)],
                     [iname \in DOMAIN raw.tables[tn].indexes |->
                         IndexMeta(iname, raw.tables[tn].indexes[iname].table_name,
                                   raw.tables[tn].indexes[iname].column_name)])]
             fromTables == LoadTableIndexes(raw)
             indexes == [iname \in (DOMAIN fromTables) \cup (DOMAIN raw.indexes) |->
                 IF iname \in DOMAIN fromTables THEN fromTables[iname]
                 ELSE IndexMeta(iname, raw.indexes[iname].table_name,
                                raw.indexes[iname].column_name)]
         IN [version |-> raw.version, tables |-> tables, indexes |-> indexes]

\* Catalog.validate_type
validate_type(typ) ==
    LET tname == Upper(typ.name)
    IN IF tname \notin SUPPORTED_TYPES
         THEN ExecutionError("Unsupported type")
       ELSE IF tname = "VARCHAR"
         THEN IF Len(typ.params) # 1 \/ typ.params[1] <= 0
                THEN ExecutionError("VARCHAR requires exactly one positive length parameter")
                ELSE NoErr
       ELSE IF typ.params # <<>>
         THEN ExecutionError("Type does not accept parameters")
       ELSE NoErr

\* as validate_create_table, but the PRIMARY KEY columns are not counted
validate_create_table_NoKeyCount(cat, table_name, columns) ==
    IF table_name \in DOMAIN cat.tables
      THEN ExecutionError("Table already exists")
    ELSE IF Cardinality({columns[i].name : i \in DOMAIN columns}) # Len(columns)
      THEN ExecutionError("Duplicate column name in CREATE TABLE")
    ELSE IF \E i \in DOMAIN columns : Failed(validate_type(columns[i].typ))
      THEN validate_type(columns[CHOOSE i \in DOMAIN columns :
               /\ Failed(validate_type(columns[i].typ))
               /\ \A j \in DOMAIN columns :
                      Failed(validate_type(columns[j].typ)) => i <= j].typ)
    ELSE NoErr

\* Catalog.validate_create_table
validate_create_table(cat, table_name, columns) ==
    IF table_name \in DOMAIN cat.tables
      THEN ExecutionError("Table already exists")
    ELSE IF Cardinality({columns[i].name : i \in DOMAIN columns}) # Len(columns)
      THEN ExecutionError("Duplicate column name in CREATE TABLE")
    ELSE IF Len(SelectSeq(columns, LAMBDA c : c.primary_key)) > 1
      THEN ExecutionError("Only one PRIMARY KEY column is supported in this phase")
    ELSE IF \E i \in DOMAIN columns : Failed(validate_type(columns[i].typ))
      THEN validate_type(columns[CHOOSE i \in DOMAIN columns :
               /\ Failed(validate_type(columns[i].typ))
               /\ \A j \in DOMAIN columns :
                      Failed(validate_type(columns[j].typ)) => i <= j].typ)
    ELSE NoErr

\* as validate_create_index, but the index name is looked up among the
\* indexes of the target table only
validate_create_index_PerTable(cat, index_name, table_name, column_name) ==
    IF table_name \notin DOMAIN cat.tables
      THEN ExecutionError("Table not found")
    ELSE IF index_name \in DOMAIN cat.tables[table_name].indexes
      THEN ExecutionError("Index already exists")
    ELSE IF column_name \notin column_names(cat.tables[table_name])
      THEN ExecutionError("Column not found")
    ELSE NoErr

\* Catalog.validate_create_index
validate_create_index(cat, index_name, table_name, column_name) ==
    IF index_name \in DOMAIN cat.indexes
      THEN ExecutionError("Index already exists")
    ELSE IF table_name \notin DOMAIN cat.tables
      THEN ExecutionError("Table not found")
    ELSE IF column_name \notin column_names(cat.tables[table_name])
      THEN ExecutionError("Column not found")
    ELSE NoErr

(***************************************************************************)
(* Heap: the files data/<table>.jsonl (a sequence of JSON objects) and     *)
(* data/<table>.meta.json.  A disk is [file, data, meta]: catalog.json,    *)
(* and the data and meta files that exist, by table name.                  *)
(***************************************************************************)
Disk(file, data, meta) == [file |-> file, data |-> data, meta |-> meta]

\* HeapTable.open, first half: create the log if it does not exist
open_data(disk, tbl) ==
    IF tbl \in DOMAIN disk.data THEN disk
    ELSE [disk EXCEPT !.data = Put(disk.data, tbl, <<>>)]

\* HeapTable.open, second half: create the meta file if it does not exist
open_meta(disk, tbl) ==
    IF tbl \in DOMAIN disk.meta THEN disk
    ELSE [disk EXCEPT !.meta = Put(disk.meta, tbl, [next_rid |-> 1])]

HeapTable_open(disk, tbl) == open_meta(open_data(disk, tbl), tbl)

\* HeapTable.insert: stored = {"_rid": rid, **row}; a key of row wins
stored(rid, row) == row @@ ("_rid" :> IntV(rid))

\* HeapTable.tombstone: the record appended
tombstone(rid) == ("_op" :> StrV("DELETE")) @@ ("_rid" :> IntV(rid))

\* scan_active: a tombstone record
IsTombstoneRecord(obj) == PyEq(Get(obj, "_op"), StrV("DELETE"))
\* scan_active: the legacy form, a record flagged _deleted with an int rid
IsLegacyDeleted(obj) ==
    /\ ~IsTombstoneRecord(obj)
    /\ Get(obj, "_deleted") = BoolV(TRUE)
    /\ IsInt(Get(obj, "_rid"))

\* as deleted, but a second tombstone of a rid takes the first one back
deleted_Toggle(log) ==
    {r \in {AsInt(Get(log[i], "_rid")) : i \in {j \in DOMAIN log :
                IsTombstoneRecord(log[j]) /\ IsInt(Get(log[j], "_rid"))}} :
        Cardinality({j \in DOMAIN log :
            IsTombstoneRecord(log[j]) /\ Get(log[j], "_rid") = IntV(r)}) % 2 = 1}

\* scan_active: the set `deleted`
deleted(log) ==
    {AsInt(Get(log[i], "_rid")) : i \in {j \in DOMAIN log :
        \/ IsTombstoneRecord(log[j]) /\ IsInt(Get(log[j], "_rid"))
        \/ IsLegacyDeleted(log[j])}}

\* scan_active: the list `rows`
row_records(log) ==
    SelectSeq(log, LAMBDA obj : ~IsTombstoneRecord(obj) /\ ~IsLegacyDeleted(obj))

\* as scan_active, but decided in one pass: a row is dropped only if a tombstone
\* for its rid comes before it in the log
scan_active_OnePass(log) ==
    LET idx == {i \in DOMAIN log :
                   /\ ~IsTombstoneRecord(log[i]) /\ ~IsLegacyDeleted(log[i])
                   /\ IsInt(Get(log[i], "_rid"))
                   /\ AsInt(Get(log[i], "_rid")) \notin deleted(SubSeq(log, 1, i - 1))}
        nth[k \in 0..Len(log)] ==
            IF k = 0 THEN <<>>
            ELSE IF k \in idx THEN Append(nth[k - 1], log[k]) ELSE nth[k - 1]
    IN nth[Len(log)]

\* HeapTable.scan_active
scan_active(log) ==
    SelectSeq(row_records(log), LAMBDA r :
        IsInt(Get(r, "_rid")) /\ AsInt(Get(r, "_rid")) \notin deleted(log))

(***************************************************************************)
(* Executor helpers.                                                       *)
(***************************************************************************)
\* Executor._resolve_col: the error, if any
resolve_col_err(table_name, colref) ==
    IF colref.table # NoTable /\ colref.table # table_name
      THEN ExecutionError("column qualifier does not match")
      ELSE NoErr

\* as validate_column_type, but INTEGER takes every isinstance(val, int), and
\* so a bool
validate_column_type_BoolIsInt(col_def, row) ==
    LET val == row[col_def.name]
        t == Upper(col_def.typ.name)
    IN IF col_def.name \notin DOMAIN row THEN NoErr
       ELSE IF IsNone(val) THEN NoErr
       ELSE IF t = "INTEGER"
         THEN IF ~IsInt(val) THEN ExecutionError("Type error: expects INTEGER")
              ELSE NoErr
       ELSE IF t \in {"VARCHAR", "TEXT", "DATE"}
         THEN IF val.t # "str" THEN ExecutionError("Type error: expects TEXT/DATE")
              ELSE IF t = "VARCHAR" /\ Len(val.v) > col_def.typ.params[1]
                THEN ExecutionError("Type error: exceeds VARCHAR")
              ELSE NoErr
       ELSE IF t = "BOOLEAN"
         THEN IF val.t # "bool" THEN ExecutionError("Type error: expects BOOLEAN")
              ELSE NoErr
       ELSE ExecutionError("Unsupported type")

\* Executor._validate_insert_types for one column
validate_column_type(col_def, row) ==
    LET val == row[col_def.name]
        t == Upper(col_def.typ.name)
    IN IF col_def.name \notin DOMAIN row THEN NoErr
       ELSE IF IsNone(val) THEN NoErr
       ELSE IF t = "INTEGER"
         THEN IF val.t # "int" THEN ExecutionError("Type error: expects INTEGER")
              ELSE NoErr
       ELSE IF t \in {"VARCHAR", "TEXT", "DATE"}
         THEN IF val.t # "str" THEN ExecutionError("Type error: expects TEXT/DATE")
              ELSE IF t = "VARCHAR" /\ Len(val.v) > col_def.typ.params[1]
                THEN ExecutionError("Type error: exceeds VARCHAR")
              ELSE NoErr
       ELSE IF t = "BOOLEAN"
         THEN IF val.t # "bool" THEN ExecutionError("Type error: expects BOOLEAN")
              ELSE NoErr
       ELSE ExecutionError("Unsupported type")

\* the first element of a sequence of errors that is one, or NoErr
FirstErr(errs) ==
    IF \E i \in DOMAIN errs : Failed(errs[i])
      THEN errs[CHOOSE i \in DOMAIN errs :
               Failed(errs[i]) /\ \A j \in DOMAIN errs : Failed(errs[j]) => i <= j]
      ELSE NoErr

\* Executor._validate_insert_types
validate_insert_types(table, row) ==
    FirstErr([i \in DOMAIN table.columns |-> validate_column_type(table.columns[i], row)])

\* Executor._row_matches_where from condition i on: "T", "F", or "E" (raises)
RECURSIVE match_from(_, _, _, _)
match_from(table_name, row, conditions, i) ==
    IF i > Len(conditions) THEN "T"
    ELSE IF conditions[i].op # "=" THEN "E"
    ELSE IF Failed(resolve_col_err(table_name, conditions[i].left)) THEN "E"
    ELSE IF ~PyEq(Get(row, conditions[i].left.column), conditions[i].right) THEN "F"
    ELSE match_from(table_name, row, conditions, i + 1)

\* as row_matches_where, but only the first condition is looked at
row_matches_where_FirstOnly(table_name, row, where) ==
    IF where.none THEN "T"
    ELSE match_from(table_name, row, SubSeq(where.conditions, 1, 1), 1)

\* Executor._row_matches_where
row_matches_where(table_name, row, where) ==
    IF where.none THEN "T" ELSE match_from(table_name, row, where.conditions, 1)

\* matches = [r for r in existing if self._row_matches_where(...)]
where_raises(table_name, existing, where) ==
    \E i \in DOMAIN existing : row_matches_where(table_name, existing[i], where) = "E"
where_matches(table_name, existing, where) ==
    SelectSeq(existing, LAMBDA r : row_matches_where(table_name, r, where) = "T")

\* as not_null_check, but a PRIMARY KEY column is checked only if declared NOT NULL
not_null_check_DeclaredOnly(table, new_rows) ==
    FirstErr([i \in DOMAIN new_rows |->
        FirstErr([j \in DOMAIN table.columns |->
            LET c == table.columns[j]
            IN IF c.not_null /\ IsNone(Get(new_rows[i], c.name))
                 THEN ConstraintError("NOT NULL constraint failed")
                 ELSE NoErr])])

\* _enforce_constraints_batch, NOT NULL loop: the first violation
not_null_check(table, new_rows) ==
    FirstErr([i \in DOMAIN new_rows |->
        FirstErr([j \in DOMAIN table.columns |->
            LET c == table.columns[j]
            IN IF (c.not_null \/ c.primary_key) /\ IsNone(Get(new_rows[i], c.name))
                 THEN IF c.primary_key
                        THEN ConstraintError("PRIMARY KEY column cannot be NULL")
                        ELSE ConstraintError("NOT NULL constraint failed")
                 ELSE NoErr])])

\* as primary_key_check, but the candidates are compared with each other only
primary_key_check_BatchOnly(table, existing_kept, new_rows) ==
    LET pk_col == primary_key_column(table)
    IN IF IsNone(pk_col) THEN NoErr
       ELSE FirstErr([i \in DOMAIN new_rows |->
           IF \E k \in 1..(i - 1) :
                  PyEq(Get(new_rows[k], pk_col.v), Get(new_rows[i], pk_col.v))
             THEN ConstraintError("PRIMARY KEY constraint failed: duplicate value within batch")
             ELSE NoErr])

\* _enforce_constraints_batch, PRIMARY KEY loop
primary_key_check(table, existing_kept, new_rows) ==
    LET pk_col == primary_key_column(table)
    IN IF IsNone(pk_col) THEN NoErr
       ELSE FirstErr([i \in DOMAIN new_rows |->
           LET pk_val == Get(new_rows[i], pk_col.v)
           IN IF \E k \in DOMAIN existing_kept :
                     PyEq(Get(existing_kept[k], pk_col.v), pk_val)
                THEN ConstraintError("PRIMARY KEY constraint failed: duplicate value")
              ELSE IF \E k \in 1..(i - 1) : PyEq(Get(new_rows[k], pk_col.v), pk_val)
                THEN ConstraintError("PRIMARY KEY constraint failed: duplicate value within batch")
              ELSE NoErr])

\* as unique_check, but the candidates are compared with each other only
unique_check_BatchOnly(ucol, existing_kept, new_rows) ==
    FirstErr([i \in DOMAIN new_rows |->
        IF IsNone(Get(new_rows[i], ucol)) THEN NoErr
        ELSE IF \E k \in 1..(i - 1) : PyEq(Get(new_rows[k], ucol), Get(new_rows[i], ucol))
          THEN ConstraintError("UNIQUE constraint failed: duplicate value within batch")
        ELSE NoErr])

\* _enforce_constraints_batch, UNIQUE loop for one column
unique_check(ucol, existing_kept, new_rows) ==
    FirstErr([i \in DOMAIN new_rows |->
        LET val == Get(new_rows[i], ucol)
        IN IF IsNone(val) THEN NoErr
           ELSE IF \E k \in DOMAIN existing_kept :
                     /\ ~IsNone(Get(existing_kept[k], ucol))
                     /\ PyEq(Get(existing_kept[k], ucol), val)
             THEN ConstraintError("UNIQUE constraint failed: duplicate value")
           ELSE IF \E k \in 1..(i - 1) : PyEq(Get(new_rows[k], ucol), val)
             THEN ConstraintError("UNIQUE constraint failed: duplicate value within batch")
           ELSE NoErr])

\* Executor._enforce_constraints_batch
enforce_constraints_batch(table, existing_rows, new_rows, exclude_rids) ==
    LET existing_kept == SelectSeq(existing_rows,
                             LAMBDA r : AsInt(Get(r, "_rid")) \notin exclude_rids)
        unique_cols == SelectSeq(table.columns, LAMBDA c : c.unique)
    IN FirstErr(<<not_null_check(table, new_rows),
                  primary_key_check(table, existing_kept, new_rows),
                  FirstErr([u \in DOMAIN unique_cols |->
                      unique_check(unique_cols[u].name, existing_kept, new_rows)])>>)

(***************************************************************************)
(* Statements (the AST the parser hands to Executor.execute).              *)
(***************************************************************************)
CreateTable(table_name, columns) ==
    [kind |-> "CreateTable", table_name |-> table_name, columns |-> columns]
CreateIndex(index_name, table_name, column_name) ==
    [kind |-> "CreateIndex", index_name |-> index_name, table_name |-> table_name,
     column_name |-> column_name]
Insert(table_name, columns, values) ==
    [kind |-> "Insert", table_name |-> table_name, columns |-> columns,
     values |-> values]
Update(table_name, assignments, where) ==
    [kind |-> "Update", table_name |-> table_name, assignments |-> assignments,
     where |-> where]
Delete(table_name, where) ==
    [kind |-> "Delete", table_name |-> table_name, where |-> where]
\* Select.columns = None, which stands for "*"
Star == [star |-> TRUE, refs |-> <<>>]
SelectList(refs) == [star |-> FALSE, refs |-> refs]
JoinClause(table_name, left, right) == [table_name |-> table_name, left |-> left, right |-> right]
Select(columns, from_table, joins, where) ==
    [kind |-> "Select", columns |-> columns, from_table |-> from_table, joins |-> joins,
     where |-> where]
\* the table a statement names
target_table(stmt) == IF stmt.kind = "Select" THEN stmt.from_table ELSE stmt.table_name

(***************************************************************************)
(* Lexer (src/simpledb/lexer.py).  SQL text is a string; a token is its    *)
(* type, its lexeme, its value and the line and column where it starts.   *)
(***************************************************************************)
SqlSyntaxError(m, pos) == [err |-> "SqlSyntaxError", msg |-> m, position |-> pos]

\* errors.Position
Position(line, col) == [line |-> line, col |-> col]
Token(typ, lexeme, value, pos) ==
    [typ |-> typ, lexeme |-> lexeme, value |-> value, pos |-> pos]

KEYWORDS ==
    {"CREATE", "TABLE", "INDEX", "INSERT", "INTO", "VALUES", "SELECT", "FROM",
     "WHERE", "AND", "UPDATE", "SET", "DELETE", "JOIN", "ON", "PRIMARY", "KEY",
     "UNIQUE", "NOT", "NULL"}

\* the one-character tokens
SYMBOLS ==
    ("(" :> "LPAREN") @@ (")" :> "RPAREN") @@ ("," :> "COMMA") @@ (";" :> "SEMI")
        @@ ("=" :> "EQ") @@ ("*" :> "STAR") @@ ("." :> "DOT")

\* a value computed once and used under a name
With(e, F(_)) == CHOOSE r \in {F(got) : got \in {e}} : TRUE

\* sql[i], with the first character at 1
CharAt(sql, i) == SubSeq(sql, i, i)

\* the place of a character in a string, 0 if it does not occur
IndexIn(ch, s) ==
    IF \E k \in 1..Len(s) : CharAt(s, k) = ch
      THEN CHOOSE k \in 1..Len(s) : CharAt(s, k) = ch
      ELSE 0

\* the letters, each with its other case
LowerCase ==
    ("A" :> "a") @@ ("B" :> "b") @@ ("C" :> "c") @@ ("D" :> "d") @@ ("E" :> "e") @@ ("F" :> "f")
        @@ ("G" :> "g") @@ ("H" :> "h") @@ ("I" :> "i") @@ ("J" :> "j") @@ ("K" :> "k") @@ ("L" :> "l")
        @@ ("M" :> "m") @@ ("N" :> "n") @@ ("O" :> "o") @@ ("P" :> "p") @@ ("Q" :> "q") @@ ("R" :> "r")
        @@ ("S" :> "s") @@ ("T" :> "t") @@ ("U" :> "u") @@ ("V" :> "v") @@ ("W" :> "w") @@ ("X" :> "x")
        @@ ("Y" :> "y") @@ ("Z" :> "z")
UpperCase ==
    ("a" :> "A") @@ ("b" :> "B") @@ ("c" :> "C") @@ ("d" :> "D") @@ ("e" :> "E") @@ ("f" :> "F")
        @@ ("g" :> "G") @@ ("h" :> "H") @@ ("i" :> "I") @@ ("j" :> "J") @@ ("k" :> "K") @@ ("l" :> "L")
        @@ ("m" :> "M") @@ ("n" :> "N") @@ ("o" :> "O") @@ ("p" :> "P") @@ ("q" :> "Q") @@ ("r" :> "R")
        @@ ("s" :> "S") @@ ("t" :> "T") @@ ("u" :> "U") @@ ("v" :> "V") @@ ("w" :> "W") @@ ("x" :> "X")
        @@ ("y" :> "Y") @@ ("z" :> "Z")

\* str.upper()
str_upper(s) ==
    LET out[k \in 0..Len(s)] ==
            IF k = 0 THEN ""
            ELSE out[k - 1] \o (IF CharAt(s, k) \in DOMAIN UpperCase
                                  THEN UpperCase[CharAt(s, k)] ELSE CharAt(s, k))
    IN out[Len(s)]

isspace(ch) == ch \in {" ", "\t", "\n"}
isdigit(ch) == IndexIn(ch, "0123456789") # 0
isalpha(ch) == ch \in DOMAIN UpperCase \/ ch \in DOMAIN LowerCase
\* sql[j].isalnum() or sql[j] == "_"
isword(ch) == isalpha(ch) \/ isdigit(ch) \/ ch = "_"

\* int(lex) of a run of digits
RECURSIVE int(_)
int(lex) ==
    IF lex = "" THEN 0
    ELSE 10 * int(SubSeq(lex, 1, Len(lex) - 1))
            + IndexIn(CharAt(lex, Len(lex)), "0123456789") - 1

\* `while j < len(sql) and P(sql[j]): j += 1`, from i: where the run ends
scan_while(sql, i, P(_)) ==
    CHOOSE j \in i..(Len(sql) + 1) :
        /\ j > Len(sql) \/ ~P(CharAt(sql, j))
        /\ \A k \in i..(j - 1) : P(CharAt(sql, k))

\* as word_token, but a word is a keyword or a boolean only as it is spelled
\* in KEYWORDS
word_token_Exact(lex, start) ==
    IF lex = "TRUE" THEN Token("BOOL", lex, BoolV(TRUE), start)
    ELSE IF lex = "FALSE" THEN Token("BOOL", lex, BoolV(FALSE), start)
    ELSE IF lex \in KEYWORDS THEN Token(lex, lex, lex, start)
    ELSE Token("IDENT", lex, lex, start)

\* tokenize: identifier / keyword / boolean
word_token(lex, start) ==
    LET upper == str_upper(lex)
    IN IF upper = "TRUE" THEN Token("BOOL", lex, BoolV(TRUE), start)
       ELSE IF upper = "FALSE" THEN Token("BOOL", lex, BoolV(FALSE), start)
       ELSE IF upper \in KEYWORDS THEN Token(upper, lex, upper, start)
       ELSE Token("IDENT", lex, lex, start)

\* tokenize.cur_pos when the loop is at sql[i]: advance has counted one line
\* for every newline before sql[i] and one column for every character after
\* the last of them
cur_pos(sql, i) ==
    LET newlines == {j \in 1..(i - 1) : CharAt(sql, j) = "\n"}
        last == IF newlines = {} THEN 0 ELSE CHOOSE j \in newlines : \A k \in newlines : k <= j
    IN Position(1 + Cardinality(newlines), i - last)

\* what the loop of tokenize has done from an index on: the tokens it
\* appended, the index it is at, and whether it is over: by the EOF token
\* after the loop, or by an ERROR token where it raises SqlSyntaxError
Lexed(toks, i, done) == [toks |-> toks, i |-> i, done |-> done]

\* tokenize: one turn of `while i < len(sql)` at sql[i]
lex_one(sql, i) ==
    IF i > Len(sql) THEN Lexed(<<Token("EOF", "", Null, cur_pos(sql, i))>>, i, TRUE)
    ELSE
    With(CharAt(sql, i), LAMBDA ch :
        IF isspace(ch) THEN Lexed(<<>>, i + 1, FALSE)
        ELSE
        With(cur_pos(sql, i), LAMBDA start :
        IF ch \in DOMAIN SYMBOLS
          THEN Lexed(<<Token(SYMBOLS[ch], ch, Null, start)>>, i + 1, FALSE)
        ELSE IF ch = "'"
          THEN With(scan_while(sql, i + 1, LAMBDA c : c # "'"), LAMBDA quote :
                   IF quote > Len(sql)
                     THEN Lexed(<<Token("ERROR", "", "Unterminated string literal", start)>>,
                                i, TRUE)
                     ELSE Lexed(<<Token("STRING", SubSeq(sql, i, quote),
                                        StrV(SubSeq(sql, i + 1, quote - 1)), start)>>,
                                quote + 1, FALSE))
        ELSE IF isdigit(ch)
          THEN With(scan_while(sql, i, isdigit), LAMBDA digits :
                   Lexed(<<Token("INT", SubSeq(sql, i, digits - 1),
                                 IntV(int(SubSeq(sql, i, digits - 1))), start)>>,
                         digits, FALSE))
        ELSE IF isalpha(ch) \/ ch = "_"
          THEN With(scan_while(sql, i, isword), LAMBDA word :
                   Lexed(<<word_token(SubSeq(sql, i, word - 1), start)>>, word, FALSE))
        ELSE Lexed(<<Token("ERROR", "", "Unexpected character", start)>>, i, TRUE)))

\* k turns of the loop from sql[i], or as many as it makes: the first half
\* of them, then the rest from where the first half ended
RECURSIVE lex_from(_, _, _)
lex_from(sql, i, k) ==
    IF k <= 1 THEN lex_one(sql, i)
    ELSE With(lex_from(sql, i, k \div 2), LAMBDA first :
             IF first.done THEN first
             ELSE With(lex_from(sql, first.i, k - (k \div 2)), LAMBDA rest :
                      Lexed(first.toks \o rest.toks, rest.i, rest.done)))

\* the loop makes at most one turn for each character; one more appends EOF
tokenize(sql) == lex_from(sql, 1, Len(sql) + 1).toks

(***************************************************************************)
(* Parser (src/simpledb/parser.py).  A parse function takes the tokens and *)
(* the index i of the next one and gives the index after what it consumed  *)
(* and the value it built, or the SqlSyntaxError it raises.                *)
(***************************************************************************)
Parsed(i, v) == [err |-> NoErr, i |-> i, v |-> v]
\* raise SqlSyntaxError(m, pos)
Rejected(m, pos) == [err |-> SqlSyntaxError(m, pos), i |-> 0, v |-> Null]
Bad(p) == Failed(p.err)

peek(tokens, i) == IF i > Len(tokens) THEN tokens[Len(tokens)] ELSE tokens[i]
at(tokens, i, typ) == peek(tokens, i).typ = typ
expect(tokens, i, typ, msg) ==
    IF at(tokens, i, typ) THEN Parsed(i + 1, peek(tokens, i).value) ELSE Rejected(msg, peek(tokens, i).pos)
\* match: the index after the token if it is of the type, else the same index
match(tokens, i, typ) == IF at(tokens, i, typ) THEN i + 1 ELSE i

parse_literal(tokens, i) ==
    IF peek(tokens, i).typ \in {"INT", "STRING", "BOOL"}
      THEN Parsed(i + 1, peek(tokens, i).value)
      ELSE Rejected(" literal (INT, STRING, BOOL)", peek(tokens, i).pos)

\* what a parse step gave, handed on to the steps after it; the
\* SqlSyntaxError of the step ends the parse
Then(p, F(_)) == CHOOSE r \in {IF Bad(got) THEN got ELSE F(got) : got \in {p}} : TRUE

parse_column_ref(tokens, i) ==
    Then(expect(tokens, i, "IDENT", "Expected identifier"), LAMBDA first :
        IF ~at(tokens, first.i, "DOT") THEN Parsed(first.i, ColumnRef(first.v, NoTable))
        ELSE Then(expect(tokens, first.i + 1, "IDENT", "Expected identifier after '.'"),
                  LAMBDA second : Parsed(second.i, ColumnRef(second.v, first.v))))

parse_condition(tokens, i) ==
    Then(parse_column_ref(tokens, i), LAMBDA left :
    Then(expect(tokens, left.i, "EQ", "Expected '=' in WHERE condition"), LAMBDA eq :
    Then(parse_literal(tokens, eq.i), LAMBDA right :
        Parsed(right.i, Condition(left.v, "=", right.v)))))

parse_assignment(tokens, i) ==
    Then(expect(tokens, i, "IDENT", "Expected column name"), LAMBDA col :
    Then(expect(tokens, col.i, "EQ", "Expected '=' in assignment"), LAMBDA eq :
    Then(parse_literal(tokens, eq.i), LAMBDA val :
        Parsed(val.i, Assignment(col.v, val.v)))))

\* `items = [parse()]; while self.match(sep): items.append(parse())`
RECURSIVE parse_list(_, _, _, _)

parse_type_spec(tokens, i) ==
    Then(expect(tokens, i, "IDENT", "Expected type name"), LAMBDA type_name :
        IF ~at(tokens, type_name.i, "LPAREN")
          THEN Parsed(type_name.i, TypeSpec(str_upper(type_name.v), <<>>))
          ELSE Then(parse_list("type parameter", "COMMA", tokens, type_name.i + 1),
                    LAMBDA params :
               Then(expect(tokens, params.i, "RPAREN", "Expected ')' after type parameters"),
                    LAMBDA close :
                   Parsed(close.i, TypeSpec(str_upper(type_name.v), params.v)))))

\* parse_column_def: the loop over NOT NULL, UNIQUE and PRIMARY KEY, in any order
RECURSIVE parse_constraints(_, _, _)
parse_constraints(tokens, i, c) ==
    IF at(tokens, i, "NOT")
      THEN IF at(tokens, i + 1, "NULL")
             THEN parse_constraints(tokens, i + 2, [c EXCEPT !.not_null = TRUE])
             ELSE Rejected("Expected NULL after NOT", peek(tokens, i + 1).pos)
    ELSE IF at(tokens, i, "UNIQUE")
      THEN parse_constraints(tokens, i + 1, [c EXCEPT !.unique = TRUE])
    ELSE IF at(tokens, i, "PRIMARY")
      THEN IF at(tokens, i + 1, "KEY")
             THEN parse_constraints(tokens, i + 2, [c EXCEPT !.primary_key = TRUE])
             ELSE Rejected("Expected KEY after PRIMARY", peek(tokens, i + 1).pos)
    ELSE Parsed(i, c)

parse_column_def(tokens, i) ==
    Then(expect(tokens, i, "IDENT", "Expected column name"), LAMBDA col_name :
    Then(parse_type_spec(tokens, col_name.i), LAMBDA typ :
    Then(parse_constraints(tokens, typ.i,
             [not_null |-> FALSE, unique |-> FALSE, primary_key |-> FALSE]), LAMBDA c :
        Parsed(c.i, ColumnDef(col_name.v, typ.v, c.v.not_null, c.v.unique,
                              c.v.primary_key)))))

\* the element of a list, by what the list holds
parse_item(what, tokens, i) ==
    CASE what = "column definition" -> parse_column_def(tokens, i)
      [] what = "column name" -> expect(tokens, i, "IDENT", "Expected column name")
      [] what = "type parameter" ->
             Then(expect(tokens, i, "INT", "Expected integer type parameter"),
                  LAMBDA p : Parsed(p.i, AsInt(p.v)))
      [] what = "literal" -> parse_literal(tokens, i)
      [] what = "column reference" -> parse_column_ref(tokens, i)
      [] what = "assignment" -> parse_assignment(tokens, i)
      [] what = "condition" -> parse_condition(tokens, i)

parse_list(what, sep, tokens, i) ==
    Then(parse_item(what, tokens, i), LAMBDA item :
        IF ~at(tokens, item.i, sep) THEN Parsed(item.i, <<item.v>>)
        ELSE Then(parse_list(what, sep, tokens, item.i + 1),
                  LAMBDA rest : Parsed(rest.i, <<item.v>> \o rest.v)))

parse_create_table_after_keyword(tokens, i) ==
    Then(expect(tokens, i, "IDENT", "Expected table name"), LAMBDA table :
    Then(expect(tokens, table.i, "LPAREN", "Expected '(' after table name"), LAMBDA open :
    Then(parse_list("column definition", "COMMA", tokens, open.i), LAMBDA cols :
    Then(expect(tokens, cols.i, "RPAREN", "Expected ')' after column definitions"),
         LAMBDA close :
        Parsed(close.i, CreateTable(table.v, cols.v))))))

parse_create_index_after_keyword(tokens, i) ==
    Then(expect(tokens, i, "IDENT", "Expected index name"), LAMBDA idx_name :
    Then(expect(tokens, idx_name.i, "ON", "Expected ON after index name"), LAMBDA on :
    Then(expect(tokens, on.i, "IDENT", "Expected table name"), LAMBDA table :
    Then(expect(tokens, table.i, "LPAREN", "Expected '(' after table name"), LAMBDA open :
    Then(expect(tokens, open.i, "IDENT", "Expected column name"), LAMBDA col :
    Then(expect(tokens, col.i, "RPAREN", "Expected ')' after column name"), LAMBDA close :
        Parsed(close.i, CreateIndex(idx_name.v, table.v, col.v))))))))

parse_create(tokens, i) ==
    IF ~at(tokens, i, "CREATE") THEN Rejected("Expected CREATE", peek(tokens, i).pos)
    ELSE IF at(tokens, i + 1, "TABLE") THEN parse_create_table_after_keyword(tokens, i + 2)
    ELSE IF at(tokens, i + 1, "INDEX") THEN parse_create_index_after_keyword(tokens, i + 2)
    ELSE Rejected("Expected TABLE or INDEX after CREATE", peek(tokens, i + 1).pos)

parse_insert(tokens, i) ==
    Then(expect(tokens, i, "INSERT", "Expected INSERT"), LAMBDA insert_kw :
    Then(expect(tokens, insert_kw.i, "INTO", "Expected INTO after INSERT"), LAMBDA into :
    Then(expect(tokens, into.i, "IDENT", "Expected table name"), LAMBDA table :
    Then(expect(tokens, table.i, "LPAREN", "Expected '(' before column list"), LAMBDA open :
    Then(parse_list("column name", "COMMA", tokens, open.i), LAMBDA cols :
    Then(expect(tokens, cols.i, "RPAREN", "Expected ')' after column list"), LAMBDA close :
    Then(expect(tokens, close.i, "VALUES", "Expected VALUES"), LAMBDA values :
    Then(expect(tokens, values.i, "LPAREN", "Expected '(' before values"), LAMBDA open2 :
    Then(parse_list("literal", "COMMA", tokens, open2.i), LAMBDA vals :
    Then(expect(tokens, vals.i, "RPAREN", "Expected ')' after values"), LAMBDA close2 :
        IF Len(cols.v) # Len(vals.v)
          THEN Rejected("Number of columns does not match number of values",
                        peek(tokens, close2.i).pos)
          ELSE Parsed(close2.i, Insert(table.v, cols.v, vals.v))))))))))))

\* WHERE, if there is one: `where = None`, or parse_where_clause_after_where
parse_where(tokens, i) ==
    IF ~at(tokens, i, "WHERE") THEN Parsed(i, NoWhere)
    ELSE Then(parse_list("condition", "AND", tokens, i + 1),
              LAMBDA conds : Parsed(conds.i, WhereClause(conds.v)))

parse_select_list(tokens, i) ==
    IF at(tokens, i, "STAR") THEN Parsed(i + 1, Star)
    ELSE Then(parse_list("column reference", "COMMA", tokens, i),
              LAMBDA cols : Parsed(cols.i, SelectList(cols.v)))

parse_join_clause(tokens, i) ==
    Then(expect(tokens, i, "IDENT", "Expected table name after JOIN"), LAMBDA table :
    Then(expect(tokens, table.i, "ON", "Expected ON in JOIN clause"), LAMBDA on :
    Then(parse_column_ref(tokens, on.i), LAMBDA left :
    Then(expect(tokens, left.i, "EQ", "Expected '=' in JOIN condition"), LAMBDA eq :
    Then(parse_column_ref(tokens, eq.i), LAMBDA right :
        Parsed(right.i, JoinClause(table.v, left.v, right.v)))))))

\* parse_select: `while self.match(TokenType.JOIN): joins.append(...)`
RECURSIVE parse_joins(_, _)
parse_joins(tokens, i) ==
    IF ~at(tokens, i, "JOIN") THEN Parsed(i, <<>>)
    ELSE Then(parse_join_clause(tokens, i + 1), LAMBDA join :
         Then(parse_joins(tokens, join.i), LAMBDA rest :
             Parsed(rest.i, <<join.v>> \o rest.v)))

parse_select(tokens, i) ==
    Then(expect(tokens, i, "SELECT", "Expected SELECT"), LAMBDA select_kw :
    Then(parse_select_list(tokens, select_kw.i), LAMBDA cols :
    Then(expect(tokens, cols.i, "FROM", "Expected FROM"), LAMBDA from :
    Then(expect(tokens, from.i, "IDENT", "Expected table name"), LAMBDA from_table :
    Then(parse_joins(tokens, from_table.i), LAMBDA joins :
    Then(parse_where(tokens, joins.i), LAMBDA where :
        Parsed(where.i, Select(cols.v, from_table.v, joins.v, where.v))))))))

parse_update(tokens, i) ==
    Then(expect(tokens, i, "UPDATE", "Expected UPDATE"), LAMBDA update_kw :
    Then(expect(tokens, update_kw.i, "IDENT", "Expected table name"), LAMBDA table :
    Then(expect(tokens, table.i, "SET", "Expected SET"), LAMBDA set :
    Then(parse_list("assignment", "COMMA", tokens, set.i), LAMBDA assignments :
    Then(parse_where(tokens, assignments.i), LAMBDA where :
        Parsed(where.i, Update(table.v, assignments.v, where.v)))))))

parse_delete(tokens, i) ==
    Then(expect(tokens, i, "DELETE", "Expected DELETE"), LAMBDA delete_kw :
    Then(expect(tokens, delete_kw.i, "FROM", "Expected FROM after DELETE"), LAMBDA from :
    Then(expect(tokens, from.i, "IDENT", "Expected table name"), LAMBDA table :
    Then(parse_where(tokens, table.i), LAMBDA where :
        Parsed(where.i, Delete(table.v, where.v))))))

parse_statement(tokens, i) ==
    CASE at(tokens, i, "CREATE") -> parse_create(tokens, i)
      [] at(tokens, i, "INSERT") -> parse_insert(tokens, i)
      [] at(tokens, i, "SELECT") -> parse_select(tokens, i)
      [] at(tokens, i, "UPDATE") -> parse_update(tokens, i)
      [] at(tokens, i, "DELETE") -> parse_delete(tokens, i)
      [] OTHER -> Rejected("Unexpected token", peek(tokens, i).pos)

\* Parser.parse_script, from token i on
RECURSIVE Parser_parse_script(_, _)
Parser_parse_script(tokens, i) ==
    IF at(tokens, i, "EOF") THEN Parsed(i, <<>>)
    ELSE IF at(tokens, i, "SEMI") THEN Parser_parse_script(tokens, i + 1)
    ELSE Then(parse_statement(tokens, i), LAMBDA stmt :
         Then(Parser_parse_script(tokens, match(tokens, stmt.i, "SEMI")), LAMBDA rest :
             Parsed(rest.i, <<stmt.v>> \o rest.v)))

parse_one(tokens) ==
    Then(Parser_parse_script(tokens, 1), LAMBDA stmts :
        IF stmts.v = <<>> THEN Rejected("Empty input", Position(1, 1))
        ELSE IF Len(stmts.v) > 1 THEN Rejected("Expected a single statement", peek(tokens, stmts.i).pos)
        ELSE Parsed(stmts.i, stmts.v[1]))

\* tokenize raised: its last token is the ERROR token
LexError(tokens) == tokens[Len(tokens)].typ = "ERROR"

parse_sql(sql) ==
    With(tokenize(sql), LAMBDA tokens :
        IF LexError(tokens) THEN Rejected(tokens[Len(tokens)].value, tokens[Len(tokens)].pos) ELSE parse_one(tokens))

parse_script(sql) ==
    With(tokenize(sql), LAMBDA tokens :
        IF LexError(tokens) THEN Rejected(tokens[Len(tokens)].value, tokens[Len(tokens)].pos)
        ELSE Parser_parse_script(tokens, 1))

(***************************************************************************)
(* The writes a statement performs after its checks, in order.  Each is    *)
(* one file operation of HeapTable or Catalog.                             *)
(***************************************************************************)
OpSaveCatalog == [op |-> "save_catalog"]
OpOpenData(tbl) == [op |-> "open_data", tbl |-> tbl]
OpOpenMeta(tbl) == [op |-> "open_meta", tbl |-> tbl]
OpLoadMeta(tbl) == [op |-> "load_meta", tbl |-> tbl]
OpSaveMeta(tbl) == [op |-> "save_meta", tbl |-> tbl]
OpAppendRow(tbl, row) == [op |-> "append_row", tbl |-> tbl, row |-> row]
OpTombstone(tbl, r) == [op |-> "tombstone", tbl |-> tbl, rid |-> r]

\* HeapTable.insert(row): _load_meta, _save_meta, append
heap_insert(tbl, row) == <<OpLoadMeta(tbl), OpSaveMeta(tbl), OpAppendRow(tbl, row)>>

\* what Executor.execute comes to before its first write: the result, the
\* catalog object after registration, whether HeapTable.open was reached,
\* and the writes still to do
Plan(res, cat, opened, ops) == [res |-> res, cat |-> cat, opened |-> opened, ops |-> ops]
Raise(e, cat, opened) == Plan(e, cat, opened, <<>>)

\* Executor._create_table
create_table(cat, stmt) ==
    LET e == validate_create_table(cat, stmt.table_name, stmt.columns)
    IN IF Failed(e) THEN Raise(e, cat, FALSE)
       ELSE Plan(CommandOk(0),
                 [cat EXCEPT !.tables = Put(cat.tables, stmt.table_name,
                     TableMeta(stmt.table_name, stmt.columns, EmptyMap))],
                 FALSE,
                 <<OpSaveCatalog, OpOpenData(stmt.table_name), OpOpenMeta(stmt.table_name)>>)

\* as register_index, but the index is put in the global map only
register_index_GlobalOnly(cat, idx) ==
    [cat EXCEPT !.indexes = Put(cat.indexes, idx.name, idx)]

\* Executor._create_index: the catalog with the index in both maps
register_index(cat, idx) ==
    [cat EXCEPT !.indexes = Put(cat.indexes, idx.name, idx),
                !.tables[idx.table_name].indexes =
                    Put(cat.tables[idx.table_name].indexes, idx.name, idx)]

\* as create_index, but the index takes a rid of the table for itself
create_index_TakesRid(cat, stmt) ==
    LET e == validate_create_index(cat, stmt.index_name, stmt.table_name, stmt.column_name)
    IN IF Failed(e) THEN Raise(e, cat, FALSE)
       ELSE Plan(CommandOk(0),
                 register_index(cat, IndexMeta(stmt.index_name, stmt.table_name,
                                               stmt.column_name)),
                 FALSE,
                 <<OpSaveCatalog, OpLoadMeta(stmt.table_name), OpSaveMeta(stmt.table_name)>>)

\* Executor._create_index
create_index(cat, stmt) ==
    LET e == validate_create_index(cat, stmt.index_name, stmt.table_name, stmt.column_name)
    IN IF Failed(e) THEN Raise(e, cat, FALSE)
       ELSE Plan(CommandOk(0),
                 register_index(cat, IndexMeta(stmt.index_name, stmt.table_name,
                                               stmt.column_name)),
                 FALSE, <<OpSaveCatalog>>)

\* Executor._insert: row = {c.name: None ...}; for c, v in zip(columns, values): row[c] = v
insert_row(table, stmt) ==
    LET n == IF Len(stmt.columns) < Len(stmt.values) THEN Len(stmt.columns)
             ELSE Len(stmt.values)
        last(cn) == CHOOSE i \in 1..n :
                        stmt.columns[i] = cn /\ \A j \in 1..n : stmt.columns[j] = cn => j <= i
    IN [cn \in column_names(table) |->
           IF \E i \in 1..n : stmt.columns[i] = cn THEN stmt.values[last(cn)] ELSE Null]

\* as insert, but the candidate is checked against every row record of the
\* log, tombstoned or not
insert_AllVersions(cat, disk, stmt) ==
    IF stmt.table_name \notin DOMAIN cat.tables
      THEN Raise(ExecutionError("Table not found"), cat, FALSE)
    ELSE
    LET table == cat.tables[stmt.table_name]
        row == insert_row(table, stmt)
        heap == HeapTable_open(disk, stmt.table_name)
        existing == row_records(heap.data[stmt.table_name])
        e == enforce_constraints_batch(table, existing, <<row>>, {})
    IN IF \E i \in DOMAIN stmt.columns : stmt.columns[i] \notin column_names(table)
         THEN Raise(ExecutionError("Unknown column in INSERT"), cat, FALSE)
       ELSE IF Failed(validate_insert_types(table, row))
         THEN Raise(validate_insert_types(table, row), cat, FALSE)
       ELSE IF Failed(e) THEN Raise(e, cat, TRUE)
       ELSE Plan(CommandOk(1), cat, TRUE, heap_insert(stmt.table_name, row))

\* Executor._insert
insert(cat, disk, stmt) ==
    IF stmt.table_name \notin DOMAIN cat.tables
      THEN Raise(ExecutionError("Table not found"), cat, FALSE)
    ELSE
    LET table == cat.tables[stmt.table_name]
        row == insert_row(table, stmt)
        heap == HeapTable_open(disk, stmt.table_name)
        existing == scan_active(heap.data[stmt.table_name])
        e == enforce_constraints_batch(table, existing, <<row>>, {})
    IN IF \E i \in DOMAIN stmt.columns : stmt.columns[i] \notin column_names(table)
         THEN Raise(ExecutionError("Unknown column in INSERT"), cat, FALSE)
       ELSE IF Failed(validate_insert_types(table, row))
         THEN Raise(validate_insert_types(table, row), cat, FALSE)
       ELSE IF Failed(e) THEN Raise(e, cat, TRUE)
       ELSE Plan(CommandOk(1), cat, TRUE, heap_insert(stmt.table_name, row))

\* Executor._update: candidate = {c.name: old.get(c.name) ...} overlaid with the assignments
candidate(table, old, assignments) ==
    LET last(cn) == CHOOSE i \in DOMAIN assignments :
                        /\ assignments[i].column = cn
                        /\ \A j \in DOMAIN assignments : assignments[j].column = cn => j <= i
        overlay == [cn \in {assignments[i].column : i \in DOMAIN assignments} |->
                        assignments[last(cn)].value]
    IN overlay @@ [cn \in column_names(table) |-> Get(old, cn)]

\* Executor._update: the apply loop, heap.insert(candidate) then heap.tombstone(old rid)
update_ops(tbl, matches, new_rows) ==
    [k \in 1..(4 * Len(matches)) |->
        LET i == ((k - 1) \div 4) + 1
            j == (k - 1) % 4
        IN IF j < 3 THEN heap_insert(tbl, new_rows[i])[j + 1]
           ELSE OpTombstone(tbl, AsInt(matches[i]["_rid"]))]

\* as update, but each candidate is checked alone just before it is written:
\* the candidates before the first bad one are applied, then the error is raised
update_RowByRow(cat, disk, stmt) ==
    IF stmt.table_name \notin DOMAIN cat.tables
      THEN Raise(ExecutionError("Table not found"), cat, FALSE)
    ELSE
    LET table == cat.tables[stmt.table_name]
        heap == HeapTable_open(disk, stmt.table_name)
        existing == scan_active(heap.data[stmt.table_name])
        matches == where_matches(stmt.table_name, existing, stmt.where)
        new_rows == [i \in DOMAIN matches |-> candidate(table, matches[i], stmt.assignments)]
        exclude_rids == {AsInt(matches[i]["_rid"]) : i \in DOMAIN matches}
        errs == [i \in DOMAIN new_rows |->
                    FirstErr(<<validate_insert_types(table, new_rows[i]),
                               enforce_constraints_batch(table, existing,
                                   SubSeq(new_rows, 1, i), exclude_rids)>>)]
        bad == CHOOSE i \in DOMAIN errs :
                   Failed(errs[i]) /\ \A j \in DOMAIN errs : Failed(errs[j]) => i <= j
    IN IF \E i \in DOMAIN stmt.assignments :
              stmt.assignments[i].column \notin column_names(table)
         THEN Raise(ExecutionError("Unknown column in UPDATE"), cat, TRUE)
       ELSE IF where_raises(stmt.table_name, existing, stmt.where)
         THEN Raise(ExecutionError("WHERE"), cat, TRUE)
       ELSE IF matches = <<>> THEN Plan(CommandOk(0), cat, TRUE, <<>>)
       ELSE IF Failed(FirstErr(errs))
         THEN Plan(FirstErr(errs), cat, TRUE,
                   update_ops(stmt.table_name, SubSeq(matches, 1, bad - 1),
                              SubSeq(new_rows, 1, bad - 1)))
       ELSE Plan(CommandOk(Len(matches)), cat, TRUE,
                 update_ops(stmt.table_name, matches, new_rows))

\* as update, but the assignment list is looked at only once a row has matched
update_CheckWhenMatched(cat, disk, stmt) ==
    IF stmt.table_name \notin DOMAIN cat.tables
      THEN Raise(ExecutionError("Table not found"), cat, FALSE)
    ELSE
    LET table == cat.tables[stmt.table_name]
        heap == HeapTable_open(disk, stmt.table_name)
        existing == scan_active(heap.data[stmt.table_name])
        matches == where_matches(stmt.table_name, existing, stmt.where)
        new_rows == [i \in DOMAIN matches |-> candidate(table, matches[i], stmt.assignments)]
        exclude_rids == {AsInt(matches[i]["_rid"]) : i \in DOMAIN matches}
        type_err == FirstErr([i \in DOMAIN new_rows |->
                        validate_insert_types(table, new_rows[i])])
        e == enforce_constraints_batch(table, existing, new_rows, exclude_rids)
    IN IF where_raises(stmt.table_name, existing, stmt.where)
         THEN Raise(ExecutionError("WHERE"), cat, TRUE)
       ELSE IF matches = <<>> THEN Plan(CommandOk(0), cat, TRUE, <<>>)
       ELSE IF \E i \in DOMAIN stmt.assignments :
                  stmt.assignments[i].column \notin column_names(table)
         THEN Raise(ExecutionError("Unknown column in UPDATE"), cat, TRUE)
       ELSE IF Failed(type_err) THEN Raise(type_err, cat, TRUE)
       ELSE IF Failed(e) THEN Raise(e, cat, TRUE)
       ELSE Plan(CommandOk(Len(matches)), cat, TRUE,
                 update_ops(stmt.table_name, matches, new_rows))

\* Executor._update
update(cat, disk, stmt) ==
    IF stmt.table_name \notin DOMAIN cat.tables
      THEN Raise(ExecutionError("Table not found"), cat, FALSE)
    ELSE
    LET table == cat.tables[stmt.table_name]
        heap == HeapTable_open(disk, stmt.table_name)
        existing == scan_active(heap.data[stmt.table_name])
        matches == where_matches(stmt.table_name, existing, stmt.where)
        new_rows == [i \in DOMAIN matches |-> candidate(table, matches[i], stmt.assignments)]
        exclude_rids == {AsInt(matches[i]["_rid"]) : i \in DOMAIN matches}
        type_err == FirstErr([i \in DOMAIN new_rows |->
                        validate_insert_types(table, new_rows[i])])
        e == enforce_constraints_batch(table, existing, new_rows, exclude_rids)
    IN IF \E i \in DOMAIN stmt.assignments :
              stmt.assignments[i].column \notin column_names(table)
         THEN Raise(ExecutionError("Unknown column in UPDATE"), cat, TRUE)
       ELSE IF where_raises(stmt.table_name, existing, stmt.where)
         THEN Raise(ExecutionError("WHERE"), cat, TRUE)
       ELSE IF matches = <<>> THEN Plan(CommandOk(0), cat, TRUE, <<>>)
       ELSE IF Failed(type_err) THEN Raise(type_err, cat, TRUE)
       ELSE IF Failed(e) THEN Raise(e, cat, TRUE)
       ELSE Plan(CommandOk(Len(matches)), cat, TRUE,
                 update_ops(stmt.table_name, matches, new_rows))

\* as delete, but the table is scanned again after every tombstone
RECURSIVE rescan_rids(_, _, _)
rescan_rids(log, table_name, where) ==
    LET matches == where_matches(table_name, scan_active(log), where)
    IN IF matches = <<>> THEN <<>>
       ELSE <<AsInt(matches[1]["_rid"])>>
                \o rescan_rids(Append(log, tombstone(AsInt(matches[1]["_rid"]))),
                               table_name, where)

delete_Rescan(cat, disk, stmt) ==
    IF stmt.table_name \notin DOMAIN cat.tables
      THEN Raise(ExecutionError("Table not found"), cat, FALSE)
    ELSE
    LET heap == HeapTable_open(disk, stmt.table_name)
        existing == scan_active(heap.data[stmt.table_name])
        rids == rescan_rids(heap.data[stmt.table_name], stmt.table_name, stmt.where)
    IN IF where_raises(stmt.table_name, existing, stmt.where)
         THEN Raise(ExecutionError("WHERE"), cat, TRUE)
       ELSE Plan(CommandOk(Len(rids)), cat, TRUE,
                 [i \in DOMAIN rids |-> OpTombstone(stmt.table_name, rids[i])])

\* Executor._delete
delete(cat, disk, stmt) ==
    IF stmt.table_name \notin DOMAIN cat.tables
      THEN Raise(ExecutionError("Table not found"), cat, FALSE)
    ELSE
    LET heap == HeapTable_open(disk, stmt.table_name)
        existing == scan_active(heap.data[stmt.table_name])
        matches == where_matches(stmt.table_name, existing, stmt.where)
    IN IF where_raises(stmt.table_name, existing, stmt.where)
         THEN Raise(ExecutionError("WHERE"), cat, TRUE)
       ELSE Plan(CommandOk(Len(matches)), cat, TRUE,
                 [i \in DOMAIN matches |->
                     OpTombstone(stmt.table_name, AsInt(matches[i]["_rid"]))])

\* as select, but the columns come out in the order of their declaration
select_DeclaredOrder(cat, disk, stmt) ==
    IF stmt.joins # <<>>
      THEN Raise(ExecutionError("JOIN not implemented yet (later step)"), cat, FALSE)
    ELSE IF stmt.from_table \notin DOMAIN cat.tables
      THEN Raise(ExecutionError("Table not found"), cat, FALSE)
    ELSE
    LET table == cat.tables[stmt.from_table]
        heap == HeapTable_open(disk, stmt.from_table)
        refs == stmt.columns.refs
        asked == {refs[i].column : i \in DOMAIN refs}
        declared == [i \in DOMAIN table.columns |-> table.columns[i].name]
        out_cols == IF stmt.columns.star THEN declared
                    ELSE SelectSeq(declared, LAMBDA cn : cn \in asked)
        qual_err == FirstErr([i \in DOMAIN refs |-> resolve_col_err(stmt.from_table, refs[i])])
        existing == scan_active(heap.data[stmt.from_table])
        matches == where_matches(stmt.from_table, existing, stmt.where)
    IN IF ~stmt.columns.star /\ Failed(qual_err) THEN Raise(qual_err, cat, TRUE)
       ELSE IF ~stmt.columns.star /\ \E cn \in asked : cn \notin column_names(table)
         THEN Raise(ExecutionError("Unknown column in SELECT"), cat, TRUE)
       ELSE IF where_raises(stmt.from_table, existing, stmt.where)
         THEN Raise(ExecutionError("WHERE"), cat, TRUE)
       ELSE Plan(QueryResult(out_cols,
                     [r \in DOMAIN matches |->
                         [i \in DOMAIN out_cols |-> Get(matches[r], out_cols[i])]]),
                 cat, TRUE, <<>>)

\* as select, but the table is looked up and its heap opened before the JOIN
\* clauses are refused
select_OpenFirst(cat, disk, stmt) ==
    IF stmt.from_table \notin DOMAIN cat.tables
      THEN Raise(ExecutionError("Table not found"), cat, FALSE)
    ELSE IF stmt.joins # <<>>
      THEN Raise(ExecutionError("JOIN not implemented yet (later step)"), cat, TRUE)
    ELSE select_DeclaredOrder(cat, disk, stmt)

\* Executor._select
select(cat, disk, stmt) ==
    IF stmt.joins # <<>>
      THEN Raise(ExecutionError("JOIN not implemented yet (later step)"), cat, FALSE)
    ELSE IF stmt.from_table \notin DOMAIN cat.tables
      THEN Raise(ExecutionError("Table not found"), cat, FALSE)
    ELSE
    LET table == cat.tables[stmt.from_table]
        heap == HeapTable_open(disk, stmt.from_table)
        refs == stmt.columns.refs
        out_cols == IF stmt.columns.star
                      THEN [i \in DOMAIN table.columns |-> table.columns[i].name]
                      ELSE [i \in DOMAIN refs |-> refs[i].column]
        qual_err == FirstErr([i \in DOMAIN refs |-> resolve_col_err(stmt.from_table, refs[i])])
        existing == scan_active(heap.data[stmt.from_table])
        matches == where_matches(stmt.from_table, existing, stmt.where)
    IN IF ~stmt.columns.star /\ Failed(qual_err) THEN Raise(qual_err, cat, TRUE)
       ELSE IF ~stmt.columns.star
               /\ \E i \in DOMAIN out_cols : out_cols[i] \notin column_names(table)
         THEN Raise(ExecutionError("Unknown column in SELECT"), cat, TRUE)
       ELSE IF where_raises(stmt.from_table, existing, stmt.where)
         THEN Raise(ExecutionError("WHERE"), cat, TRUE)
       ELSE Plan(QueryResult(out_cols,
                     [r \in DOMAIN matches |->
                         [i \in DOMAIN out_cols |-> Get(matches[r], out_cols[i])]]),
                 cat, TRUE, <<>>)

\* Executor.execute: dispatch on the statement
execute(cat, disk, stmt) ==
    CASE stmt.kind = "CreateTable" -> create_table(cat, stmt)
      [] stmt.kind = "CreateIndex" -> create_index(cat, stmt)
      [] stmt.kind = "Insert" -> insert(cat, disk, stmt)
      [] stmt.kind = "Select" -> select(cat, disk, stmt)
      [] stmt.kind = "Update" -> update(cat, disk, stmt)
      [] stmt.kind = "Delete" -> delete(cat, disk, stmt)
      [] OTHER -> Raise(ExecutionError("Unsupported statement"), cat, FALSE)

\* one write: the disk after it.  `cat` is the catalog object at that time,
\* `r` the rid this HeapTable.insert read from the meta file.
apply_op(disk, cat, r, o) ==
    CASE o.op = "save_catalog" -> [disk EXCEPT !.file = Catalog_save(cat)]
      [] o.op = "open_data" -> open_data(disk, o.tbl)
      [] o.op = "open_meta" -> open_meta(disk, o.tbl)
      [] o.op = "load_meta" -> disk
      [] o.op = "save_meta" -> [disk EXCEPT !.meta[o.tbl] = [next_rid |-> r + 1]]
      [] o.op = "append_row" ->
             [disk EXCEPT !.data[o.tbl] = Append(@, stored(r, o.row))]
      [] o.op = "tombstone" ->
             [disk EXCEPT !.data[o.tbl] = Append(@, tombstone(o.rid))]

\* rid = int(meta["next_rid"]) at a load_meta; otherwise the rid in hand
load_rid(disk, r, o) ==
    IF o.op = "load_meta" THEN disk.meta[o.tbl].next_rid ELSE r

(***************************************************************************)
(* Bounds and the statements the callers issue.                            *)
(***************************************************************************)
NumThreads == 2
MaxRid == 3

Threads == 1..NumThreads

INTEGER == TypeSpec("INTEGER", <<>>)

\* t(id INTEGER PRIMARY KEY, u INTEGER UNIQUE)
CreateKeyed ==
    CreateTable("t", <<ColumnDef("id", INTEGER, FALSE, FALSE, TRUE),
                       ColumnDef("u", INTEGER, FALSE, TRUE, FALSE)>>)
\* t(n INTEGER NOT NULL, _rid INTEGER): a column that has the name of the
\* record-id field of the stored record
CreateRidColumn ==
    CreateTable("t", <<ColumnDef("n", INTEGER, TRUE, FALSE, FALSE),
                       ColumnDef("_rid", INTEGER, FALSE, FALSE, FALSE)>>)

CreateTableStmts == {CreateKeyed, CreateRidColumn}

WhereEq(col, val) == WhereClause(<<Condition(ColumnRef(col, NoTable), "=", val)>>)

InsertStmts ==
    {Insert("t", <<"id", "u">>, <<IntV(1), IntV(1)>>),
     Insert("t", <<"id", "u">>, <<IntV(2), IntV(1)>>),
     Insert("t", <<"id">>, <<IntV(1)>>),
     Insert("t", <<"id">>, <<IntV(2)>>),
     Insert("t", <<"u">>, <<IntV(2)>>),
     Insert("t", <<"id">>, <<StrV("a")>>),
     Insert("t", <<"n", "_rid">>, <<IntV(1), IntV(2)>>),
     Insert("t", <<"n">>, <<IntV(1)>>),
     Insert("t", <<"_rid">>, <<IntV(1)>>)}

UpdateStmts ==
    {Update("t", <<Assignment("u", IntV(1))>>, NoWhere),
     Update("t", <<Assignment("id", IntV(2))>>, WhereEq("id", IntV(1))),
     Update("t", <<Assignment("u", IntV(2))>>, WhereEq("id", IntV(1))),
     Update("t", <<Assignment("u", StrV("a"))>>, WhereEq("id", IntV(2))),
     Update("t", <<Assignment("n", IntV(2))>>, WhereEq("n", IntV(1))),
     Update("t", <<Assignment("zz", IntV(1))>>, NoWhere)}

DeleteStmts ==
    {Delete("t", WhereEq("id", IntV(1))),
     Delete("t", NoWhere)}

Stmts == CreateTableStmts \cup InsertStmts \cup UpdateStmts \cup DeleteStmts

(***************************************************************************)
(* State.                                                                  *)
(***************************************************************************)
VARIABLES
    catalog,      \* _DB.catalog: the catalog object of the one Database
    catalogFile,  \* catalog.json
    dataFiles,    \* data/<table>.jsonl, by table name
    metaFiles,    \* data/<table>.meta.json, by table name
    lock,         \* _DB_LOCK: 0 when free, else the thread that holds it
    pc,           \* where each caller thread is in db_core.execute
    cur,          \* the statement a thread is executing
    ops,          \* the writes a thread has still to do
    rid,          \* the local `rid` of HeapTable.insert
    result,       \* what the call returns or raises
    pre,          \* the disk and catalog when the statement began
    sql,          \* the text a thread gave to Database.execute, "" if none
    call          \* the repository function a thread is in, and where in it

vars == <<catalog, catalogFile, dataFiles, metaFiles, lock, pc, cur, ops, rid,
          result, pre, sql, call>>

TheDisk == Disk(catalogFile, dataFiles, metaFiles)

NoStmt == [kind |-> "None"]
NoPre == [cat |-> Catalog_empty, disk |-> Disk(NoCatalogFile, EmptyMap, EmptyMap)]
\* the thread is in no repository function
NoCall == [fn |-> "", step |-> 0]
\* the function raised ValueError(raised)
Raised(msg) == [fn |-> "", step |-> 0, raised |-> msg]

\* Database.open: the handle on a directory
Database_open(file) == Catalog_load(file)

ThreadsIdle ==
    /\ lock = 0
    /\ pc = [t \in Threads |-> "idle"]
    /\ cur = [t \in Threads |-> NoStmt]
    /\ ops = [t \in Threads |-> <<>>]
    /\ rid = [t \in Threads |-> 0]
    /\ result = [t \in Threads |-> NoErr]
    /\ pre = [t \in Threads |-> NoPre]
    /\ sql = [t \in Threads |-> ""]
    /\ call = [t \in Threads |-> NoCall]

\* an empty directory, opened at import of db_core
Init ==
    /\ catalogFile = NoCatalogFile
    /\ dataFiles = EmptyMap
    /\ metaFiles = EmptyMap
    /\ catalog = Database_open(NoCatalogFile)
    /\ ThreadsIdle

\* as LockFree, but the lock is never taken into account
LockFree_NoLock(l) == TRUE

\* `with _DB_LOCK:` can be entered
LockFree(l) == l = 0

\* db_core.execute / execute_script: with _DB_LOCK
Acquire(t) ==
    /\ pc[t] = "idle"
    /\ LockFree(lock)
    /\ lock' = t
    /\ pc' = [pc EXCEPT ![t] = "locked"]
    /\ UNCHANGED <<catalog, catalogFile, dataFiles, metaFiles, cur, ops, rid, result, pre,
                   sql, call>>

\* the rows a plan appends
Appends(plan) == Len(SelectSeq(plan.ops, LAMBDA o : o.op = "append_row"))
NextRid(disk, tbl) == IF tbl \in DOMAIN disk.meta THEN disk.meta[tbl].next_rid ELSE 1

\* Executor.execute up to the first write of the statement: dispatch,
\* validation, the scan, the constraint batch, registration in the catalog
Dispatch(t, stmt) ==
    LET plan == execute(catalog, TheDisk, stmt)
        disk == IF plan.opened THEN HeapTable_open(TheDisk, target_table(stmt)) ELSE TheDisk
    IN /\ pc[t] = "locked"
       /\ NextRid(TheDisk, target_table(stmt)) + Appends(plan) - 1 <= MaxRid
       /\ cur' = [cur EXCEPT ![t] = stmt]
       /\ pre' = [pre EXCEPT ![t] = [cat |-> catalog, disk |-> TheDisk]]
       /\ catalog' = plan.cat
       /\ dataFiles' = disk.data
       /\ metaFiles' = disk.meta
       /\ result' = [result EXCEPT ![t] = plan.res]
       /\ ops' = [ops EXCEPT ![t] = plan.ops]
       /\ pc' = [pc EXCEPT ![t] = IF plan.ops = <<>> THEN "release" ELSE "apply"]
       /\ UNCHANGED <<catalogFile, lock, rid>>

\* Database.execute of a statement that is given as its syntax tree
Execute(t, stmt) == Dispatch(t, stmt) /\ UNCHANGED <<sql, call>>

\* Database.execute(sql): parse_sql, then Executor.execute; a SqlSyntaxError
\* leaves everything as it is
Database_execute(t, text) ==
    /\ pc[t] = "locked"
    /\ sql' = [sql EXCEPT ![t] = text]
    /\ \E p \in {parse_sql(text)} :
           IF Bad(p)
             THEN /\ result' = [result EXCEPT ![t] = p.err]
                  /\ pre' = [pre EXCEPT ![t] = [cat |-> catalog, disk |-> TheDisk]]
                  /\ pc' = [pc EXCEPT ![t] = "release"]
                  /\ UNCHANGED <<catalog, catalogFile, dataFiles, metaFiles, lock, cur, ops,
                                 rid>>
             ELSE Dispatch(t, p.v)
    /\ UNCHANGED call

\* the next write of the statement
Apply(t) ==
    LET o == Head(ops[t])
        disk == apply_op(TheDisk, catalog, rid[t], o)
    IN /\ pc[t] = "apply"
       /\ rid' = [rid EXCEPT ![t] = load_rid(TheDisk, rid[t], o)]
       /\ catalogFile' = disk.file
       /\ dataFiles' = disk.data
       /\ metaFiles' = disk.meta
       /\ ops' = [ops EXCEPT ![t] = Tail(ops[t])]
       /\ pc' = [pc EXCEPT ![t] = IF Tail(ops[t]) = <<>> THEN "release" ELSE "apply"]
       /\ UNCHANGED <<catalog, lock, cur, result, pre, sql, call>>

\* as Leave, but the lock is kept when the statement raised
Leave_KeptOnError(t) ==
    /\ pc[t] = "release"
    /\ lock' = IF Failed(result[t]) THEN lock ELSE 0
    /\ pc' = [pc EXCEPT ![t] = "idle"]
    /\ cur' = [cur EXCEPT ![t] = NoStmt]
    /\ rid' = [rid EXCEPT ![t] = 0]
    /\ result' = [result EXCEPT ![t] = NoErr]
    /\ pre' = [pre EXCEPT ![t] = NoPre]
    /\ sql' = [sql EXCEPT ![t] = ""]
    /\ UNCHANGED <<catalog, catalogFile, dataFiles, metaFiles, ops>>

\* leaving `with _DB_LOCK:`, by return or by exception
Leave(t) ==
    /\ pc[t] = "release"
    /\ lock' = 0
    /\ pc' = [pc EXCEPT ![t] = "idle"]
    /\ cur' = [cur EXCEPT ![t] = NoStmt]
    /\ rid' = [rid EXCEPT ![t] = 0]
    /\ result' = [result EXCEPT ![t] = NoErr]
    /\ pre' = [pre EXCEPT ![t] = NoPre]
    /\ sql' = [sql EXCEPT ![t] = ""]
    /\ UNCHANGED <<catalog, catalogFile, dataFiles, metaFiles, ops>>

\* db_core.execute returns or raises to a caller that is in no repository function
Release(t) == Leave(t) /\ UNCHANGED call

\* the process dies at any point and is started again: the files stay, the
\* threads and the lock are gone, db_core opens the database anew
Crash ==
    /\ catalog' = Database_open(catalogFile)
    /\ lock' = 0
    /\ pc' = [t \in Threads |-> "idle"]
    /\ cur' = [t \in Threads |-> NoStmt]
    /\ ops' = [t \in Threads |-> <<>>]
    /\ rid' = [t \in Threads |-> 0]
    /\ result' = [t \in Threads |-> NoErr]
    /\ pre' = [t \in Threads |-> NoPre]
    /\ sql' = [t \in Threads |-> ""]
    /\ call' = [t \in Threads |-> NoCall]
    /\ UNCHANGED <<catalogFile, dataFiles, metaFiles>>

\* the statements of a plan applied in order, as one uninterrupted run
RECURSIVE apply_all(_, _, _, _)
apply_all(disk, cat, r, os) ==
    IF os = <<>> THEN disk
    ELSE apply_all(apply_op(disk, cat, r, Head(os)), cat,
                   load_rid(disk, r, Head(os)), Tail(os))

\* Database.execute run alone from a given catalog and disk
RunStmt(cat, disk, stmt) ==
    LET plan == execute(cat, disk, stmt)
        d0 == IF plan.opened THEN HeapTable_open(disk, target_table(stmt)) ELSE disk
    IN [cat |-> plan.cat, disk |-> apply_all(d0, plan.cat, 0, plan.ops), res |-> plan.res]

\* _DB.execute_script(sql): class Database defines open and execute only
Database_execute_script(cat, script) ==
    Raise(AttributeError("'Database' object has no attribute 'execute_script'"), cat, FALSE)

Script(stmts) == [kind |-> "Script", stmts |-> stmts]

Scripts ==
    {<<CreateKeyed, Insert("t", <<"id", "u">>, <<IntV(1), IntV(1)>>)>>,
     <<Insert("t", <<"id">>, <<IntV(2)>>), Insert("t", <<"id">>, <<IntV(2)>>),
       Delete("t", NoWhere)>>}

\* db_core.execute_script, inside `with _DB_LOCK:`
ExecuteScript(t, script) ==
    LET plan == Database_execute_script(catalog, script)
    IN /\ pc[t] = "locked"
       /\ cur' = [cur EXCEPT ![t] = Script(script)]
       /\ pre' = [pre EXCEPT ![t] = [cat |-> catalog, disk |-> TheDisk]]
       /\ catalog' = plan.cat
       /\ result' = [result EXCEPT ![t] = plan.res]
       /\ ops' = [ops EXCEPT ![t] = plan.ops]
       /\ pc' = [pc EXCEPT ![t] = "release"]
       /\ UNCHANGED <<catalogFile, dataFiles, metaFiles, lock, rid, sql, call>>

Next ==
    \E t \in Threads :
        \/ Acquire(t)
        \/ \E stmt \in Stmts : Execute(t, stmt)
        \/ \E script \in Scripts : ExecuteScript(t, script)
        \/ Apply(t)
        \/ Release(t)

Spec == Init /\ [][Next]_vars

NextCrash == Next \/ Crash

SpecCrash == Init /\ [][NextCrash]_vars

Quiescent == \A t \in Threads : pc[t] = "idle"

(***************************************************************************)
(* The schema statements, run with crashes and restarts.                   *)
(***************************************************************************)
\* s(name VARCHAR(2) UNIQUE NOT NULL)
CreateNames ==
    CreateTable("s", <<ColumnDef("name", TypeSpec("VARCHAR", <<2>>), TRUE, TRUE, FALSE)>>)
\* two PRIMARY KEY columns
CreateTwoKeys ==
    CreateTable("s", <<ColumnDef("a", INTEGER, FALSE, FALSE, TRUE),
                       ColumnDef("b", INTEGER, FALSE, FALSE, TRUE)>>)

CreateIndexStmts ==
    {CreateIndex("i1", "t", "id"),
     CreateIndex("i1", "s", "name"),
     CreateIndex("i2", "t", "n"),
     CreateIndex("i2", "s", "name"),
     CreateIndex("i3", "x", "id")}

DDLStmts == CreateTableStmts \cup {CreateNames, CreateTwoKeys} \cup CreateIndexStmts

NextDDL ==
    \/ \E t \in Threads :
        \/ Acquire(t)
        \/ \E stmt \in DDLStmts : Execute(t, stmt)
        \/ Apply(t)
        \/ Release(t)
    \/ Crash

SpecDDL == Init /\ [][NextDDL]_vars

(***************************************************************************)
(* Properties.                                                             *)
(***************************************************************************)
\* the live rows of a table: scan_active of its log
Live(tn) == IF tn \in DOMAIN dataFiles THEN scan_active(dataFiles[tn]) ELSE <<>>

\* no statement is between its first and its last write
AtStatementBoundary == \A t \in Threads : pc[t] # "apply"

Columns(tn) == catalog.tables[tn].columns

\* C1: whenever every statement issued so far has completed or raised, no
\* two live rows of a table with a PRIMARY KEY column hold the same value in
\* that column.
C1_PrimaryKeyUnique ==
    AtStatementBoundary =>
        \A tn \in DOMAIN catalog.tables :
            LET pk_col == primary_key_column(catalog.tables[tn])
                live == Live(tn)
            IN ~IsNone(pk_col) =>
                   \A i, j \in DOMAIN live :
                       i # j => ~PyEq(Get(live[i], pk_col.v), Get(live[j], pk_col.v))

\* a statement was refused for a duplicate key while two rows are live
C1_Witness ==
    \E t \in Threads :
        /\ pc[t] = "release"
        /\ cur[t].kind \in {"Insert", "Update"}
        /\ result[t] = ConstraintError("PRIMARY KEY constraint failed: duplicate value")
        /\ Len(Live("t")) = 2

\* C2: whenever every statement issued so far has completed or raised, no
\* two live rows hold the same non-null value in a UNIQUE column; null may
\* occur in any number of live rows.
C2_UniqueNonNull ==
    AtStatementBoundary =>
        \A tn \in DOMAIN catalog.tables :
            \A c \in DOMAIN Columns(tn) :
                Columns(tn)[c].unique =>
                    LET live == Live(tn)
                        ucol == Columns(tn)[c].name
                    IN \A i, j \in DOMAIN live :
                           (i # j /\ ~IsNone(Get(live[i], ucol)) /\ ~IsNone(Get(live[j], ucol)))
                               => ~PyEq(Get(live[i], ucol), Get(live[j], ucol))

\* two live rows hold null in the UNIQUE column, and an UPDATE that would
\* give both the same value has been refused
C2_Witness ==
    \E t \in Threads :
        /\ pc[t] = "release"
        /\ cur[t].kind = "Update"
        /\ result[t].err = "ConstraintError"
        /\ "t" \in DOMAIN catalog.tables
        /\ Columns("t")[2].unique
        /\ Len(Live("t")) = 2
        /\ \A i \in DOMAIN Live("t") : IsNone(Get(Live("t")[i], "u"))

\* C3: an INSERT or UPDATE that raises has written nothing: every log, every
\* next_rid and every scan_active is as it was when the statement began.
C3_FailedWritesNothing ==
    \A t \in Threads :
        (pc[t] = "release" /\ cur[t].kind \in {"Insert", "Update"} /\ Failed(result[t]))
            => /\ dataFiles = pre[t].disk.data
               /\ metaFiles = pre[t].disk.meta
               /\ \A tn \in DOMAIN dataFiles :
                      scan_active(dataFiles[tn]) = scan_active(pre[t].disk.data[tn])

\* an UPDATE of two rows was refused because of its second candidate
C3_Witness ==
    \E t \in Threads :
        /\ pc[t] = "release"
        /\ cur[t].kind = "Update"
        /\ cur[t].where.none
        /\ result[t].err = "ConstraintError"
        /\ Len(scan_active(pre[t].disk.data["t"])) = 2

\* C4: at most one thread is inside a statement, that thread holds the lock,
\* and when it leaves, catalog, files and result are those of running its
\* statement alone from the state in which it acquired the lock.
C4_Serialized ==
    /\ \A t1, t2 \in Threads : t1 # t2 => (pc[t1] = "idle" \/ pc[t2] = "idle")
    /\ \A t \in Threads : pc[t] # "idle" => lock = t
    /\ \A t \in Threads :
           (pc[t] = "release" /\ cur[t].kind # "Script") =>
               LET r == RunStmt(pre[t].cat, pre[t].disk, cur[t])
               IN /\ catalog = r.cat
                  /\ TheDisk = r.disk
                  /\ result[t] = r.res

\* one thread is between the meta write and the append of its INSERT while
\* the other is outside, and the table has a row already
C4_Witness ==
    \E t1, t2 \in Threads :
        /\ t1 # t2
        /\ pc[t1] = "apply"
        /\ cur[t1].kind = "Insert"
        /\ Len(ops[t1]) = 1
        /\ pc[t2] = "idle"
        /\ Len(Live("t")) >= 1

\* C5: no two row records of one log carry the same rid, so the rids that
\* scan_active yields are pairwise distinct.
C5_RidsNeverReused ==
    \A tn \in DOMAIN dataFiles :
        LET rows == row_records(dataFiles[tn])
            live == scan_active(dataFiles[tn])
        IN /\ \A i, j \in DOMAIN rows :
                  (i # j /\ IsInt(Get(rows[i], "_rid")) /\ IsInt(Get(rows[j], "_rid")))
                      => AsInt(Get(rows[i], "_rid")) # AsInt(Get(rows[j], "_rid"))
           /\ \A i, j \in DOMAIN live :
                  i # j => AsInt(Get(live[i], "_rid")) # AsInt(Get(live[j], "_rid"))

\* C6: next_rid in the meta file is greater than the rid of every record of
\* the log, in every state, crashes included.
C6_NextRidAboveLog ==
    \A tn \in (DOMAIN dataFiles) \cap (DOMAIN metaFiles) :
        \A i \in DOMAIN dataFiles[tn] :
            IsInt(Get(dataFiles[tn][i], "_rid")) =>
                AsInt(Get(dataFiles[tn][i], "_rid")) < metaFiles[tn].next_rid

\* an INSERT that leaves a NOT NULL or PRIMARY KEY column null, and passes
\* the column and type checks
InsertLeavesNull(cat, stmt) ==
    /\ stmt.table_name \in DOMAIN cat.tables
    /\ \A i \in DOMAIN stmt.columns :
           stmt.columns[i] \in column_names(cat.tables[stmt.table_name])
    /\ ~Failed(validate_insert_types(cat.tables[stmt.table_name],
                                     insert_row(cat.tables[stmt.table_name], stmt)))
    /\ \E j \in DOMAIN cat.tables[stmt.table_name].columns :
           LET c == cat.tables[stmt.table_name].columns[j]
           IN /\ c.not_null \/ c.primary_key
              /\ IsNone(insert_row(cat.tables[stmt.table_name], stmt)[c.name])

\* C7: no live row holds null in a NOT NULL or PRIMARY KEY column, and an
\* INSERT that leaves such a column null raises ConstraintError and writes
\* nothing.
C7_NotNullHolds ==
    /\ \A tn \in DOMAIN catalog.tables :
           \A i \in DOMAIN Live(tn), j \in DOMAIN Columns(tn) :
               (Columns(tn)[j].not_null \/ Columns(tn)[j].primary_key)
                   => ~IsNone(Get(Live(tn)[i], Columns(tn)[j].name))
    /\ \A t \in Threads :
           (pc[t] \in {"apply", "release"} /\ cur[t].kind = "Insert"
                /\ InsertLeavesNull(pre[t].cat, cur[t]))
               => /\ result[t].err = "ConstraintError"
                  /\ dataFiles = pre[t].disk.data
                  /\ metaFiles = pre[t].disk.meta

\* an INSERT that omits the PRIMARY KEY column, which is not declared NOT
\* NULL, was refused while a row is live
C7_Witness ==
    \E t \in Threads :
        /\ pc[t] = "release"
        /\ cur[t] = Insert("t", <<"u">>, <<IntV(2)>>)
        /\ result[t] = ConstraintError("PRIMARY KEY column cannot be NULL")
        /\ Len(Live("t")) >= 1

\* the statements of a script run in order, stopping at the first that fails
RECURSIVE RunScript(_, _, _)
RunScript(cat, disk, stmts) ==
    IF stmts = <<>> THEN [cat |-> cat, disk |-> disk]
    ELSE LET r == RunStmt(cat, disk, Head(stmts))
         IN IF Failed(r.res) THEN [cat |-> cat, disk |-> disk]
            ELSE RunScript(r.cat, r.disk, Tail(stmts))

\* C8: when execute_script leaves the lock, the statements before the first
\* failing one have taken effect, in order, and nothing else has.
C8_ScriptRunsInOrder ==
    \A t \in Threads :
        (pc[t] = "release" /\ cur[t].kind = "Script") =>
            LET r == RunScript(pre[t].cat, pre[t].disk, cur[t].stmts)
            IN catalog = r.cat /\ TheDisk = r.disk

\* C9: saving and loading a reachable catalog gives it back, and after an
\* accepted CREATE TABLE or CREATE INDEX the catalog loaded from catalog.json
\* is the catalog in memory.
C9_CatalogRoundTrip ==
    /\ Catalog_load(Catalog_save(catalog)) = catalog
    /\ \A t \in Threads :
           (pc[t] = "release" /\ cur[t].kind \in {"CreateTable", "CreateIndex"}
                /\ ~Failed(result[t]))
               => Catalog_load(catalogFile) = catalog

\* a second index has been accepted on a catalog of two tables
C9_Witness ==
    \E t \in Threads :
        /\ pc[t] = "release"
        /\ cur[t].kind = "CreateIndex"
        /\ ~Failed(result[t])
        /\ Cardinality(DOMAIN catalog.tables) = 2
        /\ Cardinality(DOMAIN catalog.indexes) = 2

\* C10: the global index map is the union of the per-table index maps, and
\* every entry is filed under the table its table_name names, the same in
\* both maps.
C10_IndexMapsAgree ==
    /\ DOMAIN catalog.indexes =
           UNION {DOMAIN catalog.tables[tn].indexes : tn \in DOMAIN catalog.tables}
    /\ \A tn \in DOMAIN catalog.tables :
           \A iname \in DOMAIN catalog.tables[tn].indexes :
               /\ catalog.tables[tn].indexes[iname].table_name = tn
               /\ catalog.tables[tn].indexes[iname].name = iname
               /\ iname \in DOMAIN catalog.indexes
               /\ catalog.indexes[iname] = catalog.tables[tn].indexes[iname]
    /\ \A iname \in DOMAIN catalog.indexes :
           /\ catalog.indexes[iname].table_name \in DOMAIN catalog.tables
           /\ iname \in DOMAIN catalog.tables[catalog.indexes[iname].table_name].indexes

\* the catalog as loaded from catalog.json holds indexes on two tables, and
\* a further CREATE INDEX has just been refused
C10_Witness ==
    /\ catalog = Catalog_load(catalogFile)
    /\ \E i1, i2 \in DOMAIN catalog.indexes :
           catalog.indexes[i1].table_name # catalog.indexes[i2].table_name
    /\ \E t \in Threads :
           pc[t] = "release" /\ cur[t].kind = "CreateIndex" /\ Failed(result[t])

(***************************************************************************)
(* Rows that are inserted, changed, deleted and inserted again, with crashes *)
(* and restarts.                                                           *)
(***************************************************************************)
ReopenStmts ==
    CreateTableStmts \cup
    {Insert("t", <<"id">>, <<IntV(1)>>),
     Insert("t", <<"id">>, <<IntV(2)>>),
     Insert("t", <<"n", "_rid">>, <<IntV(1), IntV(2)>>),
     Update("t", <<Assignment("id", IntV(2))>>, WhereEq("id", IntV(1))),
     Update("t", <<Assignment("n", IntV(2))>>, WhereEq("n", IntV(1))),
     Delete("t", WhereEq("id", IntV(1))),
     Delete("t", NoWhere)}

NextReopen ==
    \/ \E t \in Threads :
        \/ Acquire(t)
        \/ \E stmt \in ReopenStmts : Execute(t, stmt)
        \/ Apply(t)
        \/ Release(t)
    \/ Crash

SpecReopen == Init /\ [][NextReopen]_vars

\* the rids that scan_active yields
LiveRids(log) ==
    LET live == scan_active(log)
    IN {AsInt(Get(live[i], "_rid")) : i \in DOMAIN live}

\* C11: a rid that has a tombstone in a table's log keeps it in every later
\* state, after INSERT, UPDATE, DELETE and reopen alike, and scan_active never
\* yields a row with that rid again.
C11_TombstoneIsForever ==
    [][\A tn \in DOMAIN dataFiles :
           LET tombstoned == deleted(dataFiles[tn])
           IN /\ tn \in DOMAIN dataFiles'
              /\ tombstoned \subseteq deleted(dataFiles'[tn])
              /\ tombstoned \cap LiveRids(dataFiles'[tn]) = {}]_vars

\* after the tombstone of a rid, an INSERT has appended a row record that
\* carries the same rid, and a restart or a later statement has followed:
\* the rid is not live
C11_Witness ==
    \E tn \in DOMAIN dataFiles :
        \E i, j \in DOMAIN dataFiles[tn] :
            /\ i < j
            /\ IsTombstoneRecord(dataFiles[tn][i])
            /\ ~IsTombstoneRecord(dataFiles[tn][j])
            /\ Get(dataFiles[tn][j], "_rid") = Get(dataFiles[tn][i], "_rid")
            /\ AsInt(Get(dataFiles[tn][j], "_rid")) \notin LiveRids(dataFiles[tn])
            /\ Quiescent

\* the rids of all records of a log
LogRids(log) == {AsInt(Get(log[i], "_rid")) : i \in {j \in DOMAIN log : IsInt(Get(log[j], "_rid"))}}

\* what a successful UPDATE is to leave: the unmatched live rows as they were,
\* then one new live row per matched row, with a rid the log did not hold
UpdateReplaces(table, log, stmt, after, res) ==
    LET before == scan_active(log)
        matched == SelectSeq(before,
                       LAMBDA r : row_matches_where(stmt.table_name, r, stmt.where) = "T")
        kept == SelectSeq(before,
                       LAMBDA r : row_matches_where(stmt.table_name, r, stmt.where) # "T")
        k == Len(matched)
    IN /\ res.rows_affected = k
       /\ Len(after) = Len(before)
       /\ SubSeq(after, 1, Len(kept)) = kept
       /\ \A i \in 1..k :
              LET new == after[Len(kept) + i]
              IN /\ \A cn \in column_names(table) \ {"_rid"} :
                        new[cn] = candidate(table, matched[i], stmt.assignments)[cn]
                 /\ AsInt(Get(new, "_rid")) \notin LogRids(log)
                 /\ AsInt(Get(matched[i], "_rid")) \notin LiveRids(after)
                 /\ \A j \in 1..k :
                        j # i => Get(after[Len(kept) + j], "_rid") # Get(new, "_rid")

\* C12: when a successful UPDATE has returned, rows_affected is the number of
\* live rows its WHERE matched, the number of live rows is as before, every
\* unmatched live row is as it was, and every matched row has been replaced
\* by one new live row with a fresh rid that holds the old values overlaid
\* with the assignments, its old rid no longer live.
C12_UpdateReplacesRows ==
    \A t \in Threads :
        (pc[t] = "release" /\ cur[t].kind = "Update" /\ ~Failed(result[t]))
            => UpdateReplaces(pre[t].cat.tables[cur[t].table_name],
                              pre[t].disk.data[cur[t].table_name], cur[t],
                              Live(cur[t].table_name), result[t])

(***************************************************************************)
(* Queries: SELECT, and WHERE clauses of several conditions and with       *)
(* qualified column references, on both tables.                            *)
(***************************************************************************)
Cond(tbl, col, val) == Condition(ColumnRef(col, tbl), "=", val)

QueryInsertStmts ==
    {Insert("t", <<"id", "u">>, <<IntV(1), IntV(2)>>),
     Insert("t", <<"id">>, <<IntV(2)>>),
     Insert("t", <<"n", "_rid">>, <<IntV(1), IntV(2)>>),
     Insert("t", <<"n", "_rid">>, <<IntV(2), IntV(2)>>)}

QueryDeleteStmts ==
    {Delete("t", NoWhere),
     Delete("t", WhereEq("id", IntV(1))),
     Delete("t", WhereEq("n", IntV(1))),
     Delete("t", WhereClause(<<Cond("x", "id", IntV(1))>>)),
     Delete("t", WhereClause(<<Cond(NoTable, "id", IntV(2)), Cond("x", "u", IntV(2))>>))}

QueryUpdateStmts ==
    {Update("t", <<Assignment("u", IntV(2))>>, WhereClause(<<Cond("x", "id", IntV(1))>>)),
     Update("t", <<Assignment("u", IntV(2))>>, WhereClause(<<Cond("t", "id", IntV(2))>>)),
     Update("t", <<Assignment("zz", IntV(1))>>, NoWhere)}

SelectStmts ==
    {Select(Star, "t", <<>>, NoWhere),
     Select(Star, "t", <<>>, WhereEq("u", IntV(2))),
     Select(Star, "t", <<>>, WhereClause(<<Cond("x", "id", IntV(1))>>)),
     Select(Star, "t", <<>>,
            WhereClause(<<Cond(NoTable, "id", IntV(2)), Cond("x", "u", IntV(2))>>)),
     Select(SelectList(<<ColumnRef("u", NoTable), ColumnRef("id", "t")>>), "t", <<>>,
            WhereClause(<<Cond("t", "id", IntV(2)), Cond(NoTable, "u", IntV(2))>>)),
     Select(SelectList(<<ColumnRef("u", NoTable), ColumnRef("id", NoTable),
                         ColumnRef("u", NoTable)>>), "t", <<>>, NoWhere),
     Select(SelectList(<<ColumnRef("id", "x")>>), "t", <<>>, NoWhere),
     Select(SelectList(<<ColumnRef("zz", NoTable)>>), "t", <<>>, NoWhere)}

QueryStmts ==
    CreateTableStmts \cup QueryInsertStmts \cup QueryDeleteStmts \cup QueryUpdateStmts
        \cup SelectStmts

NextQuery ==
    \E t \in Threads :
        \/ Acquire(t)
        \/ \E stmt \in QueryStmts : Execute(t, stmt)
        \/ Apply(t)
        \/ Release(t)

SpecQuery == Init /\ [][NextQuery]_vars

\* what a DELETE is to leave: one tombstone per matched row appended to the
\* log, and the unmatched live rows, as they were, the only live rows
DeleteRemoves(log, stmt, log_after, res) ==
    LET before == scan_active(log)
        matched == SelectSeq(before,
                       LAMBDA r : row_matches_where(stmt.table_name, r, stmt.where) = "T")
        kept == SelectSeq(before,
                       LAMBDA r : row_matches_where(stmt.table_name, r, stmt.where) # "T")
    IN /\ res.rows_affected = Len(matched)
       /\ log_after = log \o [i \in DOMAIN matched |-> tombstone(AsInt(matched[i]["_rid"]))]
       /\ scan_active(log_after) = kept

\* C13: when a DELETE has returned, rows_affected is the number of live rows
\* its WHERE matched, the log has gained the tombstones of exactly their
\* rids, none of them is live, and every other live row is still live with
\* its rid and values.
C13_DeleteRemovesMatches ==
    \A t \in Threads :
        (pc[t] = "release" /\ cur[t].kind = "Delete" /\ ~Failed(result[t]))
            => DeleteRemoves(pre[t].disk.data[cur[t].table_name], cur[t],
                             dataFiles[cur[t].table_name], result[t])

(***************************************************************************)
(* Schema statements that are to be refused, next to the accepted ones,    *)
(* on tables that hold rows, with crashes and restarts.                    *)
(***************************************************************************)
\* s(a INTEGER, a INTEGER)
CreateTwiceNamed ==
    CreateTable("s", <<ColumnDef("a", INTEGER, FALSE, FALSE, FALSE),
                       ColumnDef("a", INTEGER, FALSE, FALSE, TRUE)>>)
\* s(a VARCHAR), s(a VARCHAR(0)), s(a INTEGER(5)), s(a FLOAT)
CreateIllTyped ==
    {CreateTable("s", <<ColumnDef("a", TypeSpec(tn[1], tn[2]), FALSE, FALSE, FALSE)>>) :
        tn \in {<<"VARCHAR", <<>>>>, <<"VARCHAR", <<0>>>>, <<"INTEGER", <<5>>>>,
                <<"FLOAT", <<>>>>}}

SchemaStmts ==
    DDLStmts \cup {CreateTwiceNamed} \cup CreateIllTyped
        \cup {Insert("t", <<"id">>, <<IntV(1)>>), Insert("s", <<"name">>, <<StrV("a")>>)}

NextSchema ==
    \/ \E t \in Threads :
        \/ Acquire(t)
        \/ \E stmt \in SchemaStmts : Execute(t, stmt)
        \/ Apply(t)
        \/ Release(t)
    \/ Crash

SpecSchema == Init /\ [][NextSchema]_vars

\* a type the catalog does not take: an unsupported name, a VARCHAR without
\* exactly one positive length, or parameters on another type
IllFormed(typ) ==
    \/ Upper(typ.name) \notin SUPPORTED_TYPES
    \/ Upper(typ.name) = "VARCHAR" /\ ~(Len(typ.params) = 1 /\ typ.params[1] > 0)
    \/ Upper(typ.name) # "VARCHAR" /\ typ.params # <<>>

\* a CREATE TABLE that must be refused on catalog cat
CreateTableInvalid(cat, stmt) ==
    \/ stmt.table_name \in DOMAIN cat.tables
    \/ \E i, j \in DOMAIN stmt.columns : i # j /\ stmt.columns[i].name = stmt.columns[j].name
    \/ \E i, j \in DOMAIN stmt.columns :
           i # j /\ stmt.columns[i].primary_key /\ stmt.columns[j].primary_key
    \/ \E i \in DOMAIN stmt.columns : IllFormed(stmt.columns[i].typ)

\* column names pairwise distinct, at most one PRIMARY KEY column
WellFormedTable(columns) ==
    \A i, j \in DOMAIN columns :
        i # j => /\ columns[i].name # columns[j].name
                 /\ ~(columns[i].primary_key /\ columns[j].primary_key)

\* C14: a CREATE TABLE whose table exists, that names a column twice, has
\* more than one PRIMARY KEY column or an ill-formed type raises
\* ExecutionError and leaves the catalog, catalog.json and every log and meta
\* file as they were; every table of the catalog, in memory and in the file,
\* has distinct column names and at most one PRIMARY KEY column.
C14_CreateTableRefused ==
    /\ \A t \in Threads :
           (pc[t] \in {"apply", "release"} /\ cur[t].kind = "CreateTable"
                /\ CreateTableInvalid(pre[t].cat, cur[t]))
               => /\ result[t].err = "ExecutionError"
                  /\ catalog = pre[t].cat
                  /\ TheDisk = pre[t].disk
    /\ \A tn \in DOMAIN catalog.tables : WellFormedTable(catalog.tables[tn].columns)
    /\ \A tn \in DOMAIN Catalog_load(catalogFile).tables :
           WellFormedTable(Catalog_load(catalogFile).tables[tn].columns)

\* a CREATE TABLE with two PRIMARY KEY columns has been refused while another
\* table is catalogued and holds a live row
C14_Witness ==
    \E t \in Threads :
        /\ pc[t] = "release"
        /\ cur[t] = CreateTwoKeys
        /\ result[t] = ExecutionError("Only one PRIMARY KEY column is supported in this phase")
        /\ "t" \in DOMAIN catalog.tables
        /\ Len(Live("t")) = 1

\* a CREATE INDEX that must be refused on catalog cat
CreateIndexInvalid(cat, stmt) ==
    \/ stmt.index_name \in DOMAIN cat.indexes
    \/ \E tn \in DOMAIN cat.tables : stmt.index_name \in DOMAIN cat.tables[tn].indexes
    \/ stmt.table_name \notin DOMAIN cat.tables
    \/ stmt.column_name \notin column_names(cat.tables[stmt.table_name])

\* every index, of either map, is on a column of a catalogued table, and no
\* index name is filed under two tables
IndexesSound(cat) ==
    /\ \A iname \in DOMAIN cat.indexes :
           /\ cat.indexes[iname].table_name \in DOMAIN cat.tables
           /\ cat.indexes[iname].column_name
                  \in column_names(cat.tables[cat.indexes[iname].table_name])
    /\ \A tn \in DOMAIN cat.tables :
           \A iname \in DOMAIN cat.tables[tn].indexes :
               /\ cat.tables[tn].indexes[iname].column_name \in column_names(cat.tables[tn])
               /\ \A other \in DOMAIN cat.tables :
                      iname \in DOMAIN cat.tables[other].indexes => other = tn

\* C15: a CREATE INDEX whose name exists anywhere in the catalog, whose table
\* or whose column does not exist raises ExecutionError and leaves both index
\* maps and catalog.json as they were; index names are unique across the
\* catalog and every index is on an existing column of an existing table.
C15_CreateIndexRefused ==
    /\ \A t \in Threads :
           (pc[t] \in {"apply", "release"} /\ cur[t].kind = "CreateIndex"
                /\ CreateIndexInvalid(pre[t].cat, cur[t]))
               => /\ result[t].err = "ExecutionError"
                  /\ catalog = pre[t].cat
                  /\ catalogFile = pre[t].disk.file
    /\ IndexesSound(catalog)
    /\ IndexesSound(Catalog_load(catalogFile))

\* an index name that exists on one table has been refused for another table
C15_Witness ==
    \E t \in Threads :
        /\ pc[t] = "release"
        /\ cur[t].kind = "CreateIndex"
        /\ result[t] = ExecutionError("Index already exists")
        /\ cur[t].index_name \in DOMAIN catalog.indexes
        /\ catalog.indexes[cur[t].index_name].table_name # cur[t].table_name
        /\ cur[t].table_name \in DOMAIN catalog.tables

(***************************************************************************)
(* Values of every type written to columns of every type.                  *)
(***************************************************************************)
\* t(id INTEGER, name VARCHAR(1), d DATE, ok BOOLEAN)
CreateTyped ==
    CreateTable("t", <<ColumnDef("id", INTEGER, FALSE, FALSE, FALSE),
                       ColumnDef("name", TypeSpec("VARCHAR", <<1>>), FALSE, FALSE, FALSE),
                       ColumnDef("d", TypeSpec("DATE", <<>>), FALSE, FALSE, FALSE),
                       ColumnDef("ok", TypeSpec("BOOLEAN", <<>>), FALSE, FALSE, FALSE)>>)

\* per column, the values that are not of its type
IllTyped ==
    {<<"id", BoolV(TRUE)>>, <<"id", StrV("a")>>,
     <<"name", IntV(1)>>, <<"name", StrV("ab")>>,
     <<"d", IntV(1)>>,
     <<"ok", IntV(1)>>, <<"ok", StrV("a")>>}

TypedInsertStmts ==
    {Insert("t", <<"id", "name", "ok">>, <<IntV(1), StrV("a"), BoolV(TRUE)>>),
     Insert("t", <<"id", "d">>, <<IntV(1), StrV("ab")>>)}
        \cup {Insert("t", <<"id", cv[1]>>, <<IntV(1), cv[2]>>) : cv \in IllTyped}

TypedUpdateStmts ==
    {Update("t", <<Assignment(cv[1], cv[2])>>, WhereEq("id", IntV(1))) : cv \in IllTyped}
        \cup {Update("t", <<Assignment("name", StrV("b"))>>, WhereEq("id", IntV(1)))}

TypedStmts == {CreateTyped, Delete("t", NoWhere)} \cup TypedInsertStmts \cup TypedUpdateStmts

NextTyped ==
    \E t \in Threads :
        \/ Acquire(t)
        \/ \E stmt \in TypedStmts : Execute(t, stmt)
        \/ Apply(t)
        \/ Release(t)

SpecTyped == Init /\ [][NextTyped]_vars

\* a non-null value is of the declared type
Conforms(typ, val) ==
    CASE typ.name = "INTEGER" -> val.t = "int"
      [] typ.name = "VARCHAR" -> val.t = "str" /\ Len(val.v) <= typ.params[1]
      [] typ.name \in {"TEXT", "DATE"} -> val.t = "str"
      [] typ.name = "BOOLEAN" -> val.t = "bool"
      [] OTHER -> FALSE

RowConforms(table, row) ==
    \A i \in DOMAIN table.columns :
        LET val == Get(row, table.columns[i].name)
        IN IsNone(val) \/ Conforms(table.columns[i].typ, val)

\* the candidate rows of an INSERT or UPDATE on the catalog and disk it began with
Candidates(cat, disk, stmt) ==
    LET table == cat.tables[stmt.table_name]
        before == IF stmt.table_name \in DOMAIN disk.data
                    THEN scan_active(disk.data[stmt.table_name]) ELSE <<>>
        matched == SelectSeq(before,
                       LAMBDA r : row_matches_where(stmt.table_name, r, stmt.where) = "T")
    IN IF stmt.kind = "Insert" THEN {insert_row(table, stmt)}
       ELSE {candidate(table, matched[i], stmt.assignments) : i \in DOMAIN matched}

\* C16: every non-null value of every live row is of the declared type of its
\* column, and an INSERT or UPDATE with a candidate row that is not raises
\* ExecutionError with nothing written.
C16_LiveRowsConform ==
    /\ \A tn \in DOMAIN catalog.tables :
           \A i \in DOMAIN Live(tn) : RowConforms(catalog.tables[tn], Live(tn)[i])
    /\ \A t \in Threads :
           (pc[t] \in {"apply", "release"} /\ cur[t].kind \in {"Insert", "Update"}
                /\ cur[t].table_name \in DOMAIN pre[t].cat.tables
                /\ \E row \in Candidates(pre[t].cat, pre[t].disk, cur[t]) :
                       ~RowConforms(pre[t].cat.tables[cur[t].table_name], row))
               => /\ result[t].err = "ExecutionError"
                  /\ dataFiles = pre[t].disk.data
                  /\ metaFiles = pre[t].disk.meta

\* a bool was refused for the INTEGER column by an UPDATE of a live row that
\* holds values in the INTEGER, VARCHAR and BOOLEAN columns
C16_Witness ==
    \E t \in Threads :
        /\ pc[t] = "release"
        /\ cur[t] = Update("t", <<Assignment("id", BoolV(TRUE))>>, WhereEq("id", IntV(1)))
        /\ result[t].err = "ExecutionError"
        /\ \E i \in DOMAIN Live("t") :
               /\ Live("t")[i]["id"] = IntV(1)
               /\ Live("t")[i]["name"] = StrV("a")
               /\ Live("t")[i]["ok"] = BoolV(TRUE)

\* a qualified column reference whose qualifier is not the table named
WrongQualifier(colref, table_name) == colref.table # NoTable /\ colref.table # table_name

\* a SELECT, UPDATE or DELETE with such a reference in its select list or in
\* any condition of its WHERE
HasWrongQualifier(stmt) ==
    /\ stmt.kind \in {"Select", "Update", "Delete"}
    /\ \/ \E i \in DOMAIN stmt.where.conditions :
              WrongQualifier(stmt.where.conditions[i].left, target_table(stmt))
       \/ /\ stmt.kind = "Select"
          /\ \E i \in DOMAIN stmt.columns.refs :
                 WrongQualifier(stmt.columns.refs[i], target_table(stmt))

\* C17: a SELECT, UPDATE or DELETE on an existing table that holds a column
\* reference qualified with another table's name raises ExecutionError and
\* writes nothing, whatever the rows of the table.
C17_WrongQualifierRaises ==
    \A t \in Threads :
        (pc[t] = "release" /\ HasWrongQualifier(cur[t])
            /\ target_table(cur[t]) \in DOMAIN pre[t].cat.tables)
            => /\ result[t].err = "ExecutionError"
               /\ TheDisk = pre[t].disk

\* every condition of the WHERE holds of the row; no WHERE holds of every row
AllConditionsHold(row, where) ==
    \A i \in DOMAIN where.conditions :
        /\ ~IsNone(Get(row, where.conditions[i].left.column))
        /\ PyEq(Get(row, where.conditions[i].left.column), where.conditions[i].right)

\* the k-th smallest element of a set of numbers
Nth(S, k) == CHOOSE i \in S : Cardinality({j \in S : j < i}) = k - 1

\* the rows of a sequence that satisfy the WHERE, in their order
Satisfying(rows, where) ==
    LET keep == {i \in DOMAIN rows : AllConditionsHold(rows[i], where)}
    IN [k \in 1..Cardinality(keep) |-> rows[Nth(keep, k)]]

\* C18: a SELECT that returns gives the requested column names, unqualified
\* and in the requested order (for * the declared columns in declared
\* order), and one row per live row that satisfies the WHERE, in log order,
\* holding that row's values of those columns in that order.
C18_SelectReturnsMatches ==
    \A t \in Threads :
        (pc[t] = "release" /\ cur[t].kind = "Select" /\ ~Failed(result[t])) =>
            LET table == pre[t].cat.tables[cur[t].from_table]
                refs == cur[t].columns.refs
                cols == IF cur[t].columns.star
                          THEN [i \in DOMAIN table.columns |-> table.columns[i].name]
                          ELSE [i \in DOMAIN refs |-> refs[i].column]
                want == Satisfying(scan_active(pre[t].disk.data[cur[t].from_table]),
                                   cur[t].where)
            IN /\ result[t].columns = cols
               /\ Len(result[t].rows) = Len(want)
               /\ \A k \in DOMAIN want :
                      /\ Len(result[t].rows[k]) = Len(cols)
                      /\ \A i \in DOMAIN cols : result[t].rows[k][i] = Get(want[k], cols[i])

\* SELECT u, id, u FROM t has returned the two live rows, the older first,
\* one of them with null in u
C18_Witness ==
    \E t \in Threads :
        /\ pc[t] = "release"
        /\ cur[t].kind = "Select"
        /\ ~Failed(result[t])
        /\ result[t].columns = <<"u", "id", "u">>
        /\ result[t].rows = <<<<IntV(2), IntV(1), IntV(2)>>, <<Null, IntV(2), Null>>>>

\* the number of rows a statement reports: rows_affected, or the rows returned
Reported(res) == IF "rows" \in DOMAIN res THEN Len(res.rows) ELSE res.rows_affected

\* C19: a row matches a WHERE exactly if its value in the column of every
\* condition equals that condition's literal; without WHERE every row
\* matches, and a null value equals no literal.  So a SELECT returns, an
\* UPDATE or DELETE reports, and a DELETE tombstones, exactly the live rows of
\* which all conditions hold.
C19_WhereIsConjunction ==
    \A t \in Threads :
        (pc[t] = "release" /\ cur[t].kind \in {"Select", "Update", "Delete"}
            /\ ~Failed(result[t])) =>
            LET tn == target_table(cur[t])
                log == pre[t].disk.data[tn]
                live == scan_active(log)
                want == Satisfying(live, cur[t].where)
            IN /\ Reported(result[t]) = Len(want)
               /\ cur[t].where.none => Len(want) = Len(live)
               /\ cur[t].kind = "Delete" =>
                      dataFiles[tn] = log \o [k \in DOMAIN want |->
                                                 tombstone(AsInt(want[k]["_rid"]))]

\* SELECT ... WHERE t.id = 2 AND u = 2 has returned no row although a live
\* row has id = 2: its u is null; another live row has u = 2 but id = 1
C19_Witness ==
    \E t \in Threads :
        /\ pc[t] = "release"
        /\ cur[t].kind = "Select"
        /\ Len(cur[t].where.conditions) = 2
        /\ result[t] = QueryResult(<<"u", "id">>, <<>>)
        /\ \E i, j \in DOMAIN Live("t") :
               /\ Live("t")[i]["id"] = IntV(2) /\ IsNone(Live("t")[i]["u"])
               /\ Live("t")[j]["id"] = IntV(1) /\ Live("t")[j]["u"] = IntV(2)

\* an INSERT that passes the column, type and NOT NULL checks
InsertWellFormed(cat, stmt) ==
    /\ stmt.table_name \in DOMAIN cat.tables
    /\ \A i \in DOMAIN stmt.columns :
           stmt.columns[i] \in column_names(cat.tables[stmt.table_name])
    /\ RowConforms(cat.tables[stmt.table_name],
                   insert_row(cat.tables[stmt.table_name], stmt))
    /\ ~InsertLeavesNull(cat, stmt)

\* some live row holds the candidate's PRIMARY KEY value, or its non-null
\* value in a UNIQUE column
KeyHeldByLiveRow(table, live, row) ==
    \E j \in DOMAIN table.columns :
        LET c == table.columns[j]
        IN /\ c.primary_key \/ c.unique
           /\ ~IsNone(Get(row, c.name))
           /\ \E i \in DOMAIN live : PyEq(Get(live[i], c.name), Get(row, c.name))

\* C20: an INSERT is refused with ConstraintError, nothing written, exactly
\* while a live row holds its PRIMARY KEY or UNIQUE value; once no live row
\* holds it the INSERT succeeds, whatever tombstoned rows with that value the
\* log contains.
C20_KeysOfLiveRowsOnly ==
    \A t \in Threads :
        (pc[t] \in {"apply", "release"} /\ cur[t].kind = "Insert"
            /\ InsertWellFormed(pre[t].cat, cur[t])) =>
            LET table == pre[t].cat.tables[cur[t].table_name]
                live == scan_active(pre[t].disk.data[cur[t].table_name])
            IN IF KeyHeldByLiveRow(table, live, insert_row(table, cur[t]))
                 THEN /\ result[t].err = "ConstraintError"
                      /\ dataFiles = pre[t].disk.data
                      /\ metaFiles = pre[t].disk.meta
                 ELSE result[t] = CommandOk(1)

\* INSERT of id = 1 has succeeded on a log that holds two tombstoned rows
\* with id = 1
C20_Witness ==
    \E t \in Threads :
        /\ pc[t] = "release"
        /\ cur[t].kind = "Insert"
        /\ result[t] = CommandOk(1)
        /\ primary_key_column(pre[t].cat.tables["t"]) = StrV("id")
        /\ Get(insert_row(pre[t].cat.tables["t"], cur[t]), "id") = IntV(1)
        /\ LET log == pre[t].disk.data["t"]
           IN /\ scan_active(log) = <<>>
              /\ Cardinality({i \in DOMAIN log : Get(log[i], "id") = IntV(1)}) = 2

(***************************************************************************)
(* A row that is inserted and then deleted by its key, and tombstones that *)
(* are appended more than once.                                            *)
(***************************************************************************)
MaxRepeat == 3

\* t(id INTEGER PRIMARY KEY, _rid INTEGER)
CreateRidKeyed ==
    CreateTable("t", <<ColumnDef("id", INTEGER, FALSE, FALSE, TRUE),
                       ColumnDef("_rid", INTEGER, FALSE, FALSE, FALSE)>>)

UndoInsertStmts ==
    {Insert("t", <<"id", "u">>, <<IntV(1), IntV(1)>>),
     Insert("t", <<"id", "u">>, <<IntV(2), IntV(1)>>),
     Insert("t", <<"id", "_rid">>, <<IntV(1), IntV(1)>>),
     Insert("t", <<"id", "_rid">>, <<IntV(2), IntV(1)>>)}

NextUndo ==
    \E t \in Threads :
        \/ Acquire(t)
        \/ \E stmt \in {CreateKeyed, CreateRidKeyed} \cup UndoInsertStmts \cup
                        {Delete("t", WhereEq("id", IntV(1))), Delete("t", NoWhere)} :
               Execute(t, stmt)
        \/ Apply(t)
        \/ Release(t)

SpecUndo == Init /\ [][NextUndo]_vars

\* the live rows of the table after the INSERT and then DELETE ... WHERE pk = key
InsertThenDelete(cat, disk, stmt, pk, key) ==
    LET s1 == RunStmt(cat, disk, stmt)
        s2 == RunStmt(s1.cat, s1.disk, Delete(stmt.table_name, WhereEq(pk, key)))
    IN scan_active(s2.disk.data[stmt.table_name])

\* C21: in every table state, for every row whose primary-key value no live
\* row holds, the INSERT of the row followed by the DELETE of that key leaves
\* scan_active (rids, values and order) as it was before the INSERT.
C21_InsertDeleteRestores ==
    Quiescent =>
        \A stmt \in UndoInsertStmts :
            stmt.table_name \in DOMAIN catalog.tables =>
                LET table == catalog.tables[stmt.table_name]
                    pk_col == primary_key_column(table)
                    key == Get(insert_row(table, stmt), pk_col.v)
                    live == Live(stmt.table_name)
                IN (/\ ~IsNone(pk_col)
                    /\ ~IsNone(key)
                    /\ \A i \in DOMAIN live : ~PyEq(Get(live[i], pk_col.v), key))
                       => InsertThenDelete(catalog, TheDisk, stmt, pk_col.v, key) = live

\* HeapTable.tombstone(rid) called n times on a table's log
tombstone_times(disk, tbl, r, n) ==
    apply_all(disk, catalog, 0, [i \in 1..n |-> OpTombstone(tbl, r)]).data[tbl]

\* C22: for every log and every rid, scan_active after the tombstone of the
\* rid has been appended two or more times is scan_active after it has been
\* appended once.
C22_TombstoneIdempotent ==
    \A tn \in DOMAIN dataFiles :
        \A r \in 0..(MaxRid + 1) :
            \A n \in 2..MaxRepeat :
                scan_active(tombstone_times(TheDisk, tn, r, n))
                    = scan_active(tombstone_times(TheDisk, tn, r, 1))

\* a DELETE has appended the tombstone of one rid twice, for two live rows
\* that carried it, and no row of that rid is live
C22_Witness ==
    \E tn \in DOMAIN dataFiles :
        \E i, j \in DOMAIN dataFiles[tn] :
            /\ i < j
            /\ IsTombstoneRecord(dataFiles[tn][i])
            /\ dataFiles[tn][j] = dataFiles[tn][i]
            /\ AsInt(Get(dataFiles[tn][i], "_rid")) \notin LiveRids(dataFiles[tn])
            /\ Quiescent

(***************************************************************************)
(* Statements given as SQL text, SELECT with JOIN among them, with crashes *)
(* and restarts.                                                           *)
(***************************************************************************)
\* SELECT statements with one and with two JOIN clauses, on tables that are
\* there and on tables that are not
JoinSelects ==
    {"SELECT * FROM t JOIN u ON t.id = u.id",
     "select t.id from t join u on t.id = u.id JOIN t ON u.id = t.id where id = 1",
     "SELECT id FROM x JOIN t ON x.id = t.id"}

JoinTexts ==
    JoinSelects \cup
    {"CREATE TABLE t (id INTEGER PRIMARY KEY)",
     "INSERT INTO t (id) VALUES (1)",
     "SELECT * FROM t",
     "SELECT * FROM t JOIN u",
     "DELETE FROM t WHERE id = 1"}

NextJoin ==
    \/ \E t \in Threads :
        \/ Acquire(t)
        \/ \E text \in JoinTexts : Database_execute(t, text)
        \/ Apply(t)
        \/ Release(t)
    \/ Crash

SpecJoin == Init /\ [][NextJoin]_vars

\* C23: a SELECT with one or more JOIN clauses is parsed into a Select with
\* its joins, and its execution raises ExecutionError with the catalog, the
\* catalog file and every table's log and meta file as they were, none of
\* them created.
C23_JoinIsRefused ==
    \A t \in Threads :
        sql[t] \in JoinSelects =>
            /\ pc[t] = "release"
            /\ cur[t].kind = "Select"
            /\ cur[t].joins # <<>>
            /\ result[t].err = "ExecutionError"
            /\ catalog = pre[t].cat
            /\ TheDisk = pre[t].disk

\* a SELECT with JOIN has been refused on a table that is in the catalog and
\* whose files a crash during CREATE TABLE has left uncreated
C23_Witness ==
    \E t \in Threads :
        /\ sql[t] \in JoinSelects
        /\ pc[t] = "release"
        /\ Len(cur[t].joins) = 2
        /\ cur[t].from_table \in DOMAIN catalog.tables
        /\ cur[t].from_table \notin DOMAIN dataFiles

\* the statement names, in its column list, select list or assignment list, a
\* column the table does not declare
NamesUndeclared(table, stmt) ==
    CASE stmt.kind = "Insert" ->
             \E i \in DOMAIN stmt.columns : ~HasColumn(table, stmt.columns[i])
      [] stmt.kind = "Select" ->
             \E i \in DOMAIN stmt.columns.refs : ~HasColumn(table, stmt.columns.refs[i].column)
      [] stmt.kind = "Update" ->
             \E i \in DOMAIN stmt.assignments : ~HasColumn(table, stmt.assignments[i].column)
      [] OTHER -> FALSE

\* C24: an INSERT, SELECT or UPDATE on an existing table that names a column
\* the table does not declare raises ExecutionError, and every log and meta
\* file is as it was, whatever rows the table holds.
C24_UnknownColumnRefused ==
    \A t \in Threads :
        (/\ pc[t] = "release"
         /\ cur[t].kind \in {"Insert", "Select", "Update"}
         /\ target_table(cur[t]) \in DOMAIN pre[t].cat.tables
         /\ NamesUndeclared(pre[t].cat.tables[target_table(cur[t])], cur[t]))
            => /\ result[t].err = "ExecutionError"
               /\ dataFiles = pre[t].disk.data
               /\ metaFiles = pre[t].disk.meta

\* an UPDATE that assigns to an undeclared column has been refused on a
\* table with a live row that its WHERE matches
C24_Witness ==
    \E t \in Threads :
        /\ pc[t] = "release"
        /\ cur[t].kind = "Update"
        /\ target_table(cur[t]) \in DOMAIN pre[t].cat.tables
        /\ NamesUndeclared(pre[t].cat.tables[cur[t].table_name], cur[t])
        /\ result[t].err = "ExecutionError"
        /\ \E i \in DOMAIN Live(cur[t].table_name) :
               row_matches_where(cur[t].table_name, Live(cur[t].table_name)[i],
                                 cur[t].where) = "T"

(***************************************************************************)
(* Indexes created on tables that hold rows.                               *)
(***************************************************************************)
IndexStmts ==
    CreateTableStmts \cup CreateIndexStmts \cup
    {Insert("t", <<"id", "u">>, <<IntV(1), IntV(2)>>),
     Insert("t", <<"id">>, <<IntV(2)>>),
     Insert("t", <<"n", "_rid">>, <<IntV(1), IntV(2)>>),
     Delete("t", WhereEq("id", IntV(1)))}

NextIndex ==
    \E t \in Threads :
        \/ Acquire(t)
        \/ \E stmt \in IndexStmts : Execute(t, stmt)
        \/ Apply(t)
        \/ Release(t)

SpecIndex == Init /\ [][NextIndex]_vars

\* C25: when an accepted CREATE INDEX has returned, every table's log and
\* next_rid are as they were when it began, and every SELECT returns what it
\* returned before, on the running database and on the database reopened.
C25_CreateIndexCatalogOnly ==
    \A t \in Threads :
        (pc[t] = "release" /\ cur[t].kind = "CreateIndex" /\ ~Failed(result[t]))
            => /\ dataFiles = pre[t].disk.data
               /\ metaFiles = pre[t].disk.meta
               /\ \A sel \in SelectStmts :
                      LET before == RunStmt(pre[t].cat, pre[t].disk, sel).res
                      IN /\ RunStmt(catalog, TheDisk, sel).res = before
                         /\ RunStmt(Database_open(catalogFile), TheDisk, sel).res = before

\* an index has been created on a table that holds a live row and a
\* tombstoned one; the reopened catalog has the index and SELECT * returns
\* the live row
C25_Witness ==
    \E t \in Threads :
        /\ pc[t] = "release"
        /\ cur[t].kind = "CreateIndex"
        /\ ~Failed(result[t])
        /\ cur[t].index_name \in DOMAIN Database_open(catalogFile).indexes
        /\ Len(Live(cur[t].table_name)) = 1
        /\ deleted(dataFiles[cur[t].table_name]) # {}
        /\ Len(RunStmt(Database_open(catalogFile), TheDisk,
                       Select(Star, cur[t].table_name, <<>>, NoWhere)).res.rows) = 1

(***************************************************************************)
(* Statements spelled in several letter cases.                             *)
(***************************************************************************)
\* a word of a statement: a reserved word, TRUE / FALSE or a type name, and
\* any other word (an identifier, a symbol, a literal)
Kw(w) == [kw |-> TRUE, text |-> w]
Raw(w) == [kw |-> FALSE, text |-> w]

\* str.lower()
str_lower(s) ==
    LET lower[k \in 0..Len(s)] ==
            IF k = 0 THEN ""
            ELSE lower[k - 1] \o (IF CharAt(s, k) \in DOMAIN LowerCase
                                    THEN LowerCase[CharAt(s, k)]
                                    ELSE CharAt(s, k))
    IN lower[Len(s)]

Styles == {"UPPER", "lower", "Title", "every other"}

\* the k-th word as the style spells it; the words are given in upper case
Spelled(word, k, style) ==
    IF ~word.kw THEN word.text
    ELSE CASE style = "UPPER" -> word.text
           [] style = "lower" -> str_lower(word.text)
           [] style = "Title" -> Head(word.text) \o str_lower(Tail(word.text))
           [] style = "every other" ->
                  IF k % 2 = 0 THEN str_lower(word.text) ELSE word.text

\* the words in the style, separated by blanks
Render(words, style) ==
    LET text[k \in 0..Len(words)] ==
            IF k = 0 THEN ""
            ELSE text[k - 1] \o (IF k = 1 THEN "" ELSE " ") \o Spelled(words[k], k, style)
    IN text[Len(words)]

\* statements over a table name tn and a column name cn, each with the
\* syntax tree it stands for
Spellings(tn, cn) ==
    {[words |-> <<Kw("CREATE"), Kw("TABLE"), Raw(tn), Raw("("), Raw(cn), Kw("INTEGER"),
                  Kw("PRIMARY"), Kw("KEY"), Kw("NOT"), Kw("NULL"), Raw(","), Raw("ok"),
                  Kw("BOOLEAN"), Kw("UNIQUE"), Raw(")")>>,
      ast |-> CreateTable(tn, <<ColumnDef(cn, TypeSpec("INTEGER", <<>>), TRUE, FALSE, TRUE),
                                ColumnDef("ok", TypeSpec("BOOLEAN", <<>>), FALSE, TRUE,
                                          FALSE)>>)],
     [words |-> <<Kw("CREATE"), Kw("INDEX"), Raw("i"), Kw("ON"), Raw(tn), Raw("("), Raw(cn),
                  Raw(")")>>,
      ast |-> CreateIndex("i", tn, cn)],
     [words |-> <<Kw("INSERT"), Kw("INTO"), Raw(tn), Raw("("), Raw(cn), Raw(","), Raw("ok"),
                  Raw(")"), Kw("VALUES"), Raw("("), Raw("1"), Raw(","), Kw("TRUE"), Raw(")")>>,
      ast |-> Insert(tn, <<cn, "ok">>, <<IntV(1), BoolV(TRUE)>>)],
     [words |-> <<Kw("SELECT"), Raw(tn), Raw("."), Raw(cn), Kw("FROM"), Raw(tn), Kw("JOIN"),
                  Raw("s"), Kw("ON"), Raw(tn), Raw("."), Raw(cn), Raw("="), Raw("s"),
                  Raw("."), Raw(cn), Kw("WHERE"), Raw(cn), Raw("="), Raw("1"), Kw("AND"),
                  Raw("ok"), Raw("="), Kw("FALSE")>>,
      ast |-> Select(SelectList(<<ColumnRef(cn, tn)>>), tn,
                     <<JoinClause("s", ColumnRef(cn, tn), ColumnRef(cn, "s"))>>,
                     WhereClause(<<Cond(NoTable, cn, IntV(1)),
                                   Cond(NoTable, "ok", BoolV(FALSE))>>))],
     [words |-> <<Kw("UPDATE"), Raw(tn), Kw("SET"), Raw("ok"), Raw("="), Raw("'True'"),
                  Kw("WHERE"), Raw(cn), Raw("="), Raw("1")>>,
      ast |-> Update(tn, <<Assignment("ok", StrV("True"))>>, WhereEq(cn, IntV(1)))],
     [words |-> <<Kw("DELETE"), Kw("FROM"), Raw(tn), Kw("WHERE"), Raw(cn), Raw("="),
                  Raw("2")>>,
      ast |-> Delete(tn, WhereEq(cn, IntV(2)))]}

\* every statement in every style, with the table name and the column name
\* as they are and with the letter case of either changed
CaseTexts ==
    UNION {{[text |-> Render(c.words, style), style |-> style, ast |-> c.ast] :
                c \in Spellings(n[1], n[2]), style \in Styles} :
           n \in {<<"t", "id">>, <<"T", "id">>, <<"t", "Id">>}}

NextCase ==
    \E t \in Threads :
        \/ Acquire(t)
        \/ \E x \in CaseTexts : Database_execute(t, x.text)
        \/ Apply(t)
        \/ Release(t)

SpecCase == Init /\ [][NextCase]_vars

\* C26: a statement parses to the same syntax tree in whatever letter case
\* its reserved words, TRUE / FALSE and type names are written, and the
\* tree holds every identifier in the letter case it was written in, so a
\* change of an identifier's case changes that identifier in the tree and
\* nothing else.
C26_KeywordCaseIgnored ==
    \A t \in Threads :
        \A x \in CaseTexts :
            sql[t] = x.text => cur[t] = x.ast /\ result[t].err # "SqlSyntaxError"

\* INSERT written as "Insert Into T ( id , ok ) Values ( 1 , True )" has put
\* a row in table T
C26_Witness ==
    \E t \in Threads :
        \E x \in CaseTexts :
            /\ sql[t] = x.text
            /\ x.style = "Title"
            /\ pc[t] = "release"
            /\ cur[t] = Insert("T", <<"id", "ok">>, <<IntV(1), BoolV(TRUE)>>)
            /\ result[t] = CommandOk(1)
            /\ Len(Live("T")) = 1

(***************************************************************************)
(* The process dies between two writes of a statement; UPDATE statements   *)
(* whose candidates hold key values of other rows.                         *)
(***************************************************************************)
TornStmts ==
    {CreateKeyed, CreateRidKeyed,
     Insert("t", <<"id", "u">>, <<IntV(1), IntV(1)>>),
     Insert("t", <<"id", "u">>, <<IntV(2), IntV(2)>>),
     Insert("t", <<"id", "_rid">>, <<IntV(1), IntV(1)>>),
     Insert("t", <<"id", "_rid">>, <<IntV(2), IntV(2)>>),
     Insert("t", <<"id", "_rid">>, <<IntV(2), IntV(1)>>),
     Update("t", <<Assignment("u", IntV(3))>>, WhereEq("id", IntV(2))),
     Update("t", <<Assignment("u", IntV(1))>>, NoWhere),
     Update("t", <<Assignment("id", IntV(1))>>, WhereEq("id", IntV(1))),
     Update("t", <<Assignment("id", IntV(2))>>, WhereEq("id", IntV(1))),
     Update("t", <<Assignment("_rid", IntV(1))>>, NoWhere),
     Delete("t", WhereEq("id", IntV(1))),
     Delete("t", NoWhere)}

NextTorn ==
    \/ \E t \in Threads :
           \/ Acquire(t)
           \/ \E stmt \in TornStmts : Execute(t, stmt)
           \/ Apply(t)
           \/ Release(t)
    \/ Crash

SpecTorn == Init /\ [][NextTorn]_vars

\* no two live rows of the table hold the same primary-key value
KeysDistinct(cat, data, tn) ==
    (tn \in DOMAIN cat.tables /\ tn \in DOMAIN data) =>
        LET pk_col == primary_key_column(cat.tables[tn])
            live == scan_active(data[tn])
        IN ~IsNone(pk_col) =>
               \A i, j \in DOMAIN live :
                   (i < j /\ ~IsNone(Get(live[i], pk_col.v)))
                       => ~PyEq(Get(live[i], pk_col.v), Get(live[j], pk_col.v))

\* the row that was appended last and a row of the rid are both live
BothLive(log, old_rid) ==
    LET live == scan_active(log)
    IN \E i, j \in DOMAIN live :
           /\ i < j
           /\ AsInt(live[i]["_rid"]) = old_rid
           /\ live[j] = log[Len(log)]

\* C27: when the process dies inside an UPDATE after a replacement row has
\* been appended and before the tombstone of the row it replaces, both rows
\* are live after the restart; when it dies at any other point between the
\* writes of an INSERT, UPDATE or DELETE, a table whose live rows had
\* distinct keys when the statement began has distinct keys after the restart.
C27_CrashInsideUpdate ==
    [][\A t \in Threads :
           (Crash /\ pc[t] = "apply" /\ cur[t].kind \in {"Insert", "Update", "Delete"}) =>
               IF cur[t].kind = "Update" /\ Head(ops[t]).op = "tombstone"
                 THEN BothLive(dataFiles'[cur[t].table_name], Head(ops[t]).rid)
                 ELSE KeysDistinct(pre[t].cat, pre[t].disk.data, cur[t].table_name)
                          => KeysDistinct(catalog', dataFiles', cur[t].table_name)]_vars

\* the PRIMARY KEY and UNIQUE columns of a table
key_columns(table) ==
    {table.columns[i].name :
        i \in {j \in DOMAIN table.columns :
                  table.columns[j].primary_key \/ table.columns[j].unique}}

\* a candidate of the UPDATE has, in a key column, a value that a live row
\* the UPDATE does not match holds
HeldByUnmatched(table, existing, stmt) ==
    \E i, j \in DOMAIN existing :
        /\ row_matches_where(stmt.table_name, existing[i], stmt.where) = "T"
        /\ row_matches_where(stmt.table_name, existing[j], stmt.where) = "F"
        /\ \E k \in key_columns(table) :
               LET val == Get(candidate(table, existing[i], stmt.assignments), k)
               IN ~IsNone(val) /\ PyEq(val, Get(existing[j], k))

\* C28: an UPDATE that matches rows and is not refused with an
\* ExecutionError succeeds when no key value of its candidates is held by a
\* live row it does not match (the values may be held by the rows it
\* replaces), and raises ConstraintError when a key value of a candidate is
\* held by a live row it does not match.
C28_UpdateExcludesReplaced ==
    \A t \in Threads :
        (/\ cur[t].kind = "Update"
         /\ pc[t] \in {"apply", "release"}
         /\ result[t].err # "ExecutionError"
         /\ cur[t].table_name \in DOMAIN pre[t].disk.data) =>
            LET table == pre[t].cat.tables[cur[t].table_name]
                existing == scan_active(pre[t].disk.data[cur[t].table_name])
                matches == where_matches(cur[t].table_name, existing, cur[t].where)
            IN matches # <<>> =>
                   IF HeldByUnmatched(table, existing, cur[t])
                     THEN result[t].err = "ConstraintError"
                     ELSE result[t] = CommandOk(Len(matches))

(***************************************************************************)
(* The repositories of the finance tracker (src/finance_tracker/app/repos):*)
(* a repository function is a sequence of calls of db_core.execute, each   *)
(* under the lock on its own, and other threads run between two of them.   *)
(* Of the columns of transactions, type, description, date and ym are      *)
(* written and read as amount_cents is and are left out.                   *)
(***************************************************************************)
\* str(n) of an int
RECURSIVE str(_)
str(n) ==
    IF n < 0 THEN "-" \o str(0 - n)
    ELSE IF n < 10 THEN CharAt("0123456789", n + 1)
    ELSE str(n \div 10) \o CharAt("0123456789", (n % 10) + 1)

\* value.replace("'", "''")
sql_escape_string(value) ==
    LET out[k \in 0..Len(value)] ==
            IF k = 0 THEN ""
            ELSE out[k - 1] \o (IF CharAt(value, k) = "'" THEN "''" ELSE CharAt(value, k))
    IN out[Len(value)]

sql_literal(value) ==
    CASE value.t = "null" -> "NULL"
      [] value.t = "bool" -> IF value.v THEN "true" ELSE "false"
      [] value.t = "int" -> str(value.v)
      [] value.t = "str" -> "'" \o sql_escape_string(value.v) \o "'"

\* init_db: the CREATE TABLE statements that are run at startup
init_db ==
    [transactions |->
         "CREATE TABLE transactions (id INTEGER PRIMARY KEY, user_id INTEGER NOT NULL, "
             \o "category_id INTEGER NOT NULL, amount_cents INTEGER NOT NULL);",
     categories |->
         "CREATE TABLE categories (id INTEGER PRIMARY KEY, user_id INTEGER NOT NULL, "
             \o "name VARCHAR(50) NOT NULL);"]

\* the rows of a QueryResult
Rows(res) == IF "rows" \in DOMAIN res THEN res.rows ELSE <<>>

\* next_transaction_id / next_category_id, from the result of SELECT id
next_id(res) ==
    LET ids == {AsInt(Rows(res)[i][1]) : i \in {j \in DOMAIN Rows(res) : Rows(res)[j][1].t = "int"}}
    IN (IF ids = {} \/ \A n \in ids : n < 0 THEN 0
        ELSE CHOOSE n \in ids : \A m \in ids : m <= n) + 1

get_transaction_by_id_for_user(tx_id, user_id) ==
    "SELECT id, user_id, category_id, amount_cents FROM transactions WHERE id = "
        \o sql_literal(IntV(tx_id)) \o " AND user_id = " \o sql_literal(IntV(user_id)) \o ";"

\* A repository function at the step c.step: the statement it gives to
\* execute, and the call once execute has returned res (NoCall when the
\* function returns or raises).
create_transaction(c, res) ==
    IF c.step = 1
      THEN [sql |-> "SELECT id FROM transactions;",
            next |-> [c EXCEPT !.step = 2, !.tx_id = next_id(res)]]
      ELSE [sql |-> "INSERT INTO transactions (id, user_id, category_id, amount_cents) "
                        \o "VALUES (" \o sql_literal(IntV(c.tx_id)) \o ", "
                        \o sql_literal(IntV(c.user_id)) \o ", "
                        \o sql_literal(IntV(c.category_id)) \o ", "
                        \o sql_literal(IntV(c.amount_cents)) \o ");",
            next |-> NoCall]

update_transaction_for_user(c, res) ==
    IF c.step = 1
      THEN [sql |-> get_transaction_by_id_for_user(c.tx_id, c.user_id),
            next |-> IF Rows(res) = <<>> THEN Raised("Transaction not found.")
                     ELSE [c EXCEPT !.step = 2]]
      ELSE [sql |-> "UPDATE transactions SET category_id = "
                        \o sql_literal(IntV(c.category_id)) \o ", amount_cents = "
                        \o sql_literal(IntV(c.amount_cents))
                        \o " WHERE id = " \o sql_literal(IntV(c.tx_id)) \o ";",
            next |-> NoCall]

delete_transaction_for_user(c, res) ==
    IF c.step = 1
      THEN [sql |-> get_transaction_by_id_for_user(c.tx_id, c.user_id),
            next |-> IF Rows(res) = <<>> THEN Raised("Transaction not found.")
                     ELSE [c EXCEPT !.step = 2]]
      ELSE [sql |-> "DELETE FROM transactions WHERE id = " \o sql_literal(IntV(c.tx_id))
                        \o ";",
            next |-> NoCall]

(***************************************************************************)
(* categories_repo: the name of a category is looked up in one statement   *)
(* and written in a later one.                                             *)
(***************************************************************************)
get_category_by_id_for_user(category_id, user_id) ==
    "SELECT id, user_id, name FROM categories WHERE id = " \o sql_literal(IntV(category_id))
        \o " AND user_id = " \o sql_literal(IntV(user_id)) \o ";"

get_category_by_name_for_user(name, user_id) ==
    "SELECT id, user_id, name FROM categories WHERE user_id = " \o sql_literal(IntV(user_id))
        \o " AND name = " \o sql_literal(StrV(name)) \o ";"

create_category(c, res) ==
    CASE c.step = 1 ->
             [sql |-> get_category_by_name_for_user(c.name, c.user_id),
              next |-> IF Rows(res) # <<>> THEN Raised("Category name already exists.")
                       ELSE [c EXCEPT !.step = 2]]
      [] c.step = 2 ->
             [sql |-> "SELECT id FROM categories;",
              next |-> [c EXCEPT !.step = 3, !.category_id = next_id(res)]]
      [] c.step = 3 ->
             [sql |-> "INSERT INTO categories (id, user_id, name) VALUES ("
                          \o sql_literal(IntV(c.category_id)) \o ", "
                          \o sql_literal(IntV(c.user_id)) \o ", "
                          \o sql_literal(StrV(c.name)) \o ");",
              next |-> NoCall]

rename_category(c, res) ==
    CASE c.step = 1 ->
             [sql |-> get_category_by_id_for_user(c.category_id, c.user_id),
              next |-> IF Rows(res) = <<>> THEN Raised("Category not found.")
                       ELSE [c EXCEPT !.step = 2]]
      [] c.step = 2 ->
             [sql |-> get_category_by_name_for_user(c.name, c.user_id),
              next |-> IF Rows(res) # <<>> /\ AsInt(Rows(res)[1][1]) # c.category_id
                         THEN Raised("Another category with that name already exists.")
                         ELSE [c EXCEPT !.step = 3]]
      [] c.step = 3 ->
             [sql |-> "UPDATE categories SET name = " \o sql_literal(StrV(c.name))
                          \o " WHERE id = " \o sql_literal(IntV(c.category_id)) \o ";",
              next |-> NoCall]

(***************************************************************************)
(* Categories that transactions refer to: delete_category looks for        *)
(* transactions of the category and deletes it in a later statement; the   *)
(* route transaction_new_submit looks the category up and inserts the      *)
(* transaction in a later statement.                                       *)
(***************************************************************************)
list_categories_for_user(user_id) ==
    "SELECT id, user_id, name FROM categories WHERE user_id = " \o sql_literal(IntV(user_id))
        \o ";"

category_is_used(category_id) ==
    "SELECT id FROM transactions WHERE category_id = " \o sql_literal(IntV(category_id)) \o ";"

delete_category(c, res) ==
    CASE c.step = 1 ->
             [sql |-> get_category_by_id_for_user(c.category_id, c.user_id),
              next |-> IF Rows(res) = <<>> THEN Raised("Category not found.")
                       ELSE [c EXCEPT !.step = 2]]
      [] c.step = 2 ->
             [sql |-> category_is_used(c.category_id),
              next |-> IF Len(Rows(res)) > 0
                         THEN Raised("Cannot delete: this category has transactions.")
                         ELSE [c EXCEPT !.step = 3]]
      [] c.step = 3 ->
             [sql |-> "DELETE FROM categories WHERE id = " \o sql_literal(IntV(c.category_id))
                          \o ";",
              next |-> NoCall]

\* POST /transactions/new of a logged-in user, with a well-formed amount,
\* type and date: the form is answered with an error page (NoCall) when the
\* category is not one of the user, else create_transaction is called
transaction_new_submit(c, res) ==
    CASE c.step = 1 ->
             [sql |-> list_categories_for_user(c.user_id), next |-> [c EXCEPT !.step = 2]]
      [] c.step = 2 ->
             [sql |-> get_category_by_id_for_user(c.category_id, c.user_id),
              next |-> IF Rows(res) = <<>> THEN NoCall
                       ELSE [fn |-> "create_transaction", step |-> 1, user_id |-> c.user_id,
                             category_id |-> c.category_id,
                             amount_cents |-> c.amount_cents, tx_id |-> 0]]

\* list_transactions_for_user: the text of its SELECT, for the columns that
\* the model's transactions table keeps; ym is None or a string
list_transactions_sql(user_id, ym) ==
    LET where ==
            IF IsNone(ym) \/ \A i \in 1..Len(ym.v) : isspace(CharAt(ym.v, i))
              THEN "WHERE transactions.user_id = " \o sql_literal(IntV(user_id))
              ELSE "WHERE transactions.user_id = " \o sql_literal(IntV(user_id)) \o " "
                       \o "AND transactions.ym = " \o sql_literal(ym)
    IN "SELECT transactions.id, transactions.amount_cents, "
           \o "transactions.category_id, categories.name "
           \o "FROM transactions "
           \o "JOIN categories ON transactions.category_id = categories.id "
           \o where \o ";"

\* list_transactions_for_user(user_id, ym): one execute, then the rows are
\* made into dicts and sorted, which changes nothing in the database
list_transactions_for_user(c, res) ==
    [sql |-> list_transactions_sql(c.user_id, c.ym), next |-> NoCall]

\* compute_dashboard(user_id, now): all the transactions of the user, then
\* those of the month of now; the sums are made without the database
compute_dashboard(c, res) ==
    CASE c.step = 1 ->
             [sql |-> list_transactions_sql(c.user_id, Null), next |-> [c EXCEPT !.step = 2]]
      [] c.step = 2 ->
             [sql |-> list_transactions_sql(c.user_id, c.ym), next |-> NoCall]

\* the repository function or route of the call c
Step(c, res) ==
    CASE c.fn = "create_transaction" -> create_transaction(c, res)
      [] c.fn = "update_transaction_for_user" -> update_transaction_for_user(c, res)
      [] c.fn = "delete_transaction_for_user" -> delete_transaction_for_user(c, res)
      [] c.fn = "create_category" -> create_category(c, res)
      [] c.fn = "rename_category" -> rename_category(c, res)
      [] c.fn = "delete_category" -> delete_category(c, res)
      [] c.fn = "transaction_new_submit" -> transaction_new_submit(c, res)
      [] c.fn = "list_transactions_for_user" -> list_transactions_for_user(c, res)
      [] c.fn = "compute_dashboard" -> compute_dashboard(c, res)
      [] c.fn = "execute" -> [sql |-> c.text, next |-> NoCall]

\* the state after init_db has created the table in an empty directory
Started(tn) ==
    LET s == RunStmt(Database_open(NoCatalogFile), Disk(NoCatalogFile, EmptyMap, EmptyMap),
                     parse_sql(init_db[tn]).v)
    IN /\ catalog = s.cat
       /\ catalogFile = s.disk.file
       /\ dataFiles = s.disk.data
       /\ metaFiles = s.disk.meta
       /\ ThreadsIdle

\* a request handler calls a repository function
Request(t, c) ==
    /\ pc[t] = "idle"
    /\ call[t].fn = ""
    /\ call' = [call EXCEPT ![t] = c]
    /\ UNCHANGED <<catalog, catalogFile, dataFiles, metaFiles, lock, pc, cur, ops, rid,
                   result, pre, sql>>

\* the function calls execute(sql): the lock is taken, the statement is run
Enter(t) == call[t].fn # "" /\ Acquire(t)
Run(t) == call[t].fn # "" /\ Database_execute(t, Step(call[t], NoErr).sql)

\* execute returns or raises, and the function goes on to its next statement,
\* returns or raises
Resume(t) ==
    /\ call[t].fn # ""
    /\ Leave(t)
    /\ call' = [call EXCEPT ![t] = IF Failed(result[t]) THEN NoCall
                                   ELSE Step(call[t], result[t]).next]

\* users 1 and 2 create transactions; user 1 updates and deletes transaction 1
TransactionCalls ==
    {[fn |-> "create_transaction", step |-> 1, user_id |-> u, category_id |-> 1,
      amount_cents |-> 5, tx_id |-> 0] : u \in {1, 2}}
    \cup {[fn |-> "update_transaction_for_user", step |-> 1, tx_id |-> 1, user_id |-> 1,
           category_id |-> 1, amount_cents |-> 7],
          [fn |-> "delete_transaction_for_user", step |-> 1, tx_id |-> 1, user_id |-> 1]}

NextTransactions ==
    \E t \in Threads :
        \/ \E c \in TransactionCalls : Request(t, c)
        \/ Enter(t)
        \/ Run(t)
        \/ Apply(t)
        \/ Resume(t)

SpecTransactions == Started("transactions") /\ [][NextTransactions]_vars

\* C29: the UPDATE of update_transaction_for_user(tx_id, user_id, ...) and
\* the DELETE of delete_transaction_for_user(tx_id, user_id) change or remove
\* only rows whose user_id is the user_id of the call, whatever other
\* callers did between the ownership SELECT and the statement.
C29_OwnRowsOnly ==
    \A t \in Threads :
        (/\ call[t].fn \in {"update_transaction_for_user", "delete_transaction_for_user"}
         /\ call[t].step = 2
         /\ pc[t] \in {"apply", "release"}) =>
            LET existing == scan_active(pre[t].disk.data["transactions"])
                matches == where_matches("transactions", existing, cur[t].where)
            IN \A i \in DOMAIN matches :
                   PyEq(Get(matches[i], "user_id"), IntV(call[t].user_id))

\* user 1 creates categories named a and b and renames categories 1 and 2;
\* user 2 creates a category named a (name is the new_name of a rename)
CategoryCalls ==
    {[fn |-> "create_category", step |-> 1, user_id |-> 1, name |-> n, category_id |-> 0] :
         n \in {"a", "b"}}
    \cup {[fn |-> "create_category", step |-> 1, user_id |-> 2, name |-> "a",
           category_id |-> 0],
          [fn |-> "rename_category", step |-> 1, category_id |-> 1, user_id |-> 1,
           name |-> "b"],
          [fn |-> "rename_category", step |-> 1, category_id |-> 2, user_id |-> 1,
           name |-> "a"]}

NextCategories ==
    \E t \in Threads :
        \/ \E c \in CategoryCalls : Request(t, c)
        \/ Enter(t)
        \/ Run(t)
        \/ Apply(t)
        \/ Resume(t)

SpecCategories == Started("categories") /\ [][NextCategories]_vars

\* another category of the user holds the name
NameTaken(existing, user_id, name, category_id) ==
    \E i \in DOMAIN existing :
        /\ PyEq(Get(existing[i], "user_id"), IntV(user_id))
        /\ PyEq(Get(existing[i], "name"), StrV(name))
        /\ ~PyEq(Get(existing[i], "id"), IntV(category_id))

\* C30: no user has two live categories of one name, and the INSERT of
\* create_category and the UPDATE of rename_category are not run when
\* another live category of the user has the name: the call has raised
\* ValueError before, whatever other callers did in between.
C30_NamesDistinctPerUser ==
    /\ \A i, j \in DOMAIN Live("categories") :
           (/\ i # j
            /\ PyEq(Get(Live("categories")[i], "user_id"), Get(Live("categories")[j], "user_id"))
            /\ PyEq(Get(Live("categories")[i], "name"), Get(Live("categories")[j], "name")))
               => FALSE
    /\ \A t \in Threads :
           (/\ call[t].fn \in {"create_category", "rename_category"}
            /\ call[t].step = 3
            /\ pc[t] \in {"apply", "release"}) =>
               ~NameTaken(scan_active(pre[t].disk.data["categories"]), call[t].user_id,
                          call[t].name, call[t].category_id)

(***************************************************************************)
(* Both tables of init_db; a user creates a category, posts a transaction  *)
(* of it and deletes it.                                                   *)
(***************************************************************************)
StartedBoth ==
    \E a \in {RunStmt(Database_open(NoCatalogFile), Disk(NoCatalogFile, EmptyMap, EmptyMap),
                      parse_sql(init_db.categories).v)} :
        \E b \in {RunStmt(a.cat, a.disk, parse_sql(init_db.transactions).v)} :
            /\ catalog = b.cat
            /\ catalogFile = b.disk.file
            /\ dataFiles = b.disk.data
            /\ metaFiles = b.disk.meta
            /\ ThreadsIdle

ReferenceCalls ==
    {[fn |-> "create_category", step |-> 1, user_id |-> 1, name |-> "a", category_id |-> 0],
     [fn |-> "transaction_new_submit", step |-> 1, user_id |-> 1, category_id |-> 1,
      amount_cents |-> 5],
     [fn |-> "delete_category", step |-> 1, category_id |-> 1, user_id |-> 1]}

NextReferences ==
    \E t \in Threads :
        \/ \E c \in ReferenceCalls : Request(t, c)
        \/ Enter(t)
        \/ Run(t)
        \/ Apply(t)
        \/ Resume(t)

SpecReferences == StartedBoth /\ [][NextReferences]_vars

\* C31: the category_id of every live transaction is the id of a live
\* category, whatever the interleaving of delete_category with the
\* creation of transactions.
C31_ReferencedCategoriesLive ==
    \A i \in DOMAIN Live("transactions") :
        \E j \in DOMAIN Live("categories") :
            PyEq(Get(Live("categories")[j], "id"), Get(Live("transactions")[i], "category_id"))

\* C32: the INSERT of create_transaction and of create_category never
\* raises ConstraintError: the id that next_transaction_id or
\* next_category_id computed is unused when the INSERT runs, whatever other
\* callers did in between.
C32_ComputedIdUnused ==
    \A t \in Threads :
        (/\ \/ call[t].fn = "create_transaction" /\ call[t].step = 2
            \/ call[t].fn = "create_category" /\ call[t].step = 3
         /\ pc[t] = "release") =>
            result[t].err # "ConstraintError"

(***************************************************************************)
(* Values written as sql_literal writes them, and read by the lexer and    *)
(* the parser of the engine.                                               *)
(***************************************************************************)
\* the values given to sql_literal: int, bool, None and str
LiteralValues ==
    {IntV(0), IntV(5), IntV(12), IntV(0 - 5), BoolV(TRUE), BoolV(FALSE), Null,
     StrV(""), StrV("a"), StrV("a b"), StrV("it's"), StrV("'")}

\* a column of the type of the value (None goes to the TEXT column)
LiteralColumn(value) ==
    CASE value.t = "int" -> "n"
      [] value.t = "bool" -> "b"
      [] OTHER -> "s"

LiteralInsert(value) ==
    "INSERT INTO v (" \o LiteralColumn(value) \o ") VALUES (" \o sql_literal(value) \o ");"

LiteralInit ==
    \E a \in {RunStmt(Database_open(NoCatalogFile), Disk(NoCatalogFile, EmptyMap, EmptyMap),
                      parse_sql("CREATE TABLE v (n INTEGER, b BOOLEAN, s TEXT);").v)} :
        /\ catalog = a.cat
        /\ catalogFile = a.disk.file
        /\ dataFiles = a.disk.data
        /\ metaFiles = a.disk.meta
        /\ ThreadsIdle

NextLiteral ==
    \E t \in Threads :
        \/ Acquire(t)
        \/ \E value \in LiteralValues : Database_execute(t, LiteralInsert(value))
        \/ Apply(t)
        \/ Release(t)

SpecLiteral == LiteralInit /\ [][NextLiteral]_vars

\* C33: for every value that sql_literal supports, the INSERT written with
\* sql_literal(value) parses with that one value in its VALUES list, and the
\* row it stores holds the value.
C33_LiteralRoundTrip ==
    \A t \in Threads : \A value \in LiteralValues :
        (sql[t] = LiteralInsert(value) /\ pc[t] = "release") =>
            /\ cur[t] = Insert("v", <<LiteralColumn(value)>>, <<value>>)
            /\ result[t] = CommandOk(1)
            /\ Len(Live("v")) > 0
            /\ Get(Live("v")[Len(Live("v"))], LiteralColumn(value)) = value

(***************************************************************************)
(* DELETE statements on tables of one and of several rows, with WHERE      *)
(* clauses that raise.                                                     *)
(***************************************************************************)
DeleteScanStmts ==
    {CreateKeyed, CreateRidKeyed,
     Insert("t", <<"id", "u">>, <<IntV(1), IntV(1)>>),
     Insert("t", <<"id", "u">>, <<IntV(2), IntV(2)>>),
     Insert("t", <<"id", "_rid">>, <<IntV(1), IntV(1)>>),
     Insert("t", <<"id", "_rid">>, <<IntV(2), IntV(1)>>),
     Delete("t", WhereEq("id", IntV(1))),
     Delete("t", NoWhere),
     Delete("t", WhereClause(<<Cond("", "id", IntV(2)), Cond("x", "id", IntV(2))>>)),
     Delete("t", WhereClause(<<Cond("", "u", IntV(1))>>))}

NextDeleteScan ==
    \E t \in Threads :
        \/ Acquire(t)
        \/ \E stmt \in DeleteScanStmts : Execute(t, stmt)
        \/ Apply(t)
        \/ Release(t)

SpecDeleteScan == Init /\ [][NextDeleteScan]_vars

\* the tombstones of the first k of the matches
TombstonesOf(matches, k) == [i \in 1..k |-> tombstone(AsInt(matches[i]["_rid"]))]

\* C34: while a DELETE on an existing table is being applied and when it is
\* done, the log is the log the statement found followed by the tombstones
\* of the first rows that matched in that log, in the order of the scan, one
\* for each write done so far, and rows_affected is the number of those
\* matches; a DELETE whose WHERE raises on a row of that log has appended
\* nothing.
C34_DeleteMatchesBeforeTombstones ==
    \A t \in Threads :
        (/\ cur[t].kind = "Delete"
         /\ pc[t] \in {"apply", "release"}
         /\ cur[t].table_name \in DOMAIN pre[t].cat.tables) =>
            LET tn == cur[t].table_name
                log == HeapTable_open(pre[t].disk, tn).data[tn]
                existing == scan_active(log)
                matches == where_matches(tn, existing, cur[t].where)
            IN IF where_raises(tn, existing, cur[t].where)
                 THEN /\ result[t].err = "ExecutionError"
                      /\ ops[t] = <<>>
                      /\ dataFiles[tn] = log
                 ELSE /\ result[t] = CommandOk(Len(matches))
                      /\ Len(ops[t]) <= Len(matches)
                      /\ dataFiles[tn] = log \o TombstonesOf(matches, Len(matches) - Len(ops[t]))

\* a DELETE of two rows has appended its first tombstone
C34_Witness ==
    \E t \in Threads :
        /\ cur[t].kind = "Delete"
        /\ pc[t] = "apply"
        /\ Len(ops[t]) = 1
        /\ result[t] = CommandOk(2)
        /\ Len(dataFiles["t"]) = Len(pre[t].disk.data["t"]) + 1
        /\ IsTombstoneRecord(dataFiles["t"][Len(dataFiles["t"])])

\* the value an INSERT lists for a column (the last one, if it lists the
\* column twice), None if it does not list the column
Listed(stmt, cn) ==
    IF \E i \in DOMAIN stmt.columns : stmt.columns[i] = cn
      THEN stmt.values[CHOOSE i \in DOMAIN stmt.columns :
                           /\ stmt.columns[i] = cn
                           /\ \A j \in DOMAIN stmt.columns : stmt.columns[j] = cn => j <= i]
      ELSE Null

\* C35: when an INSERT has returned rows_affected = 1, the live rows are
\* the rows that were live before, with their rids and values and in their
\* order, followed by one row whose rid is the next_rid of before and whose
\* columns hold the listed values and null elsewhere, and next_rid is one
\* more than before.
C35_InsertAddsOneRowLast ==
    \A t \in Threads :
        (cur[t].kind = "Insert" /\ pc[t] = "release" /\ ~Failed(result[t])) =>
            LET tn == cur[t].table_name
                was == HeapTable_open(pre[t].disk, tn)
                before == scan_active(was.data[tn])
                r == was.meta[tn].next_rid
                after == Live(tn)
            IN /\ result[t] = CommandOk(1)
               /\ Len(after) = Len(before) + 1
               /\ SubSeq(after, 1, Len(before)) = before
               /\ Get(after[Len(after)], "_rid") = IntV(r)
               /\ \A i \in DOMAIN pre[t].cat.tables[tn].columns :
                      LET cn == pre[t].cat.tables[tn].columns[i].name
                      IN cn # "_rid" => Get(after[Len(after)], cn) = Listed(cur[t], cn)
               /\ metaFiles[tn].next_rid = r + 1

(***************************************************************************)
(* Callers of db_core.execute that wait for the lock while statements of   *)
(* other callers return or raise.                                          *)
(***************************************************************************)
\* statements that return, and statements that raise SqlSyntaxError,
\* ExecutionError and ConstraintError
LockedTexts ==
    {"CREATE TABLE t (id INTEGER PRIMARY KEY);",
     "INSERT INTO t (id) VALUES (1);",
     "SELECT * FROM t;",
     "SELEC * FROM t;"}

NextLocked ==
    \E t \in Threads :
        \/ \E text \in LockedTexts : Request(t, [fn |-> "execute", step |-> 1, text |-> text])
        \/ Enter(t)
        \/ Run(t)
        \/ Apply(t)
        \/ Resume(t)

SpecLocked == Init /\ [][NextLocked]_vars

\* a thread that is in `with _DB_LOCK:` goes on running; a thread that
\* waits for the lock gets it at one of the times it is free
FairLocked ==
    /\ SpecLocked
    /\ \A t \in Threads :
           /\ WF_vars(Run(t))
           /\ WF_vars(Apply(t))
           /\ WF_vars(Resume(t))
           /\ SF_vars(Enter(t))

\* the thread has called execute and has not entered `with _DB_LOCK:` yet
Waiting(t) == call[t].fn # "" /\ pc[t] = "idle"

ScriptStatements ==
    {"SELECT * FROM t", "DELETE FROM t WHERE id = 1", "INSERT INTO t (id) VALUES (1)"}

\* the statements alone, with a semicolon between them or runs of them around
Separated(a, b) == {a \o ";" \o b, ";" \o a \o ";;" \o b \o ";"}
\* the two statements with no semicolon between them
Adjacent(a, b) == a \o " " \o b

SeparatedScripts == UNION {Separated(a, b) : a, b \in ScriptStatements}
AdjacentScripts == {Adjacent(a, b) : a, b \in ScriptStatements}
EmptyScripts == {"", ";", " ;; "}
SingleScripts == ScriptStatements \cup {a \o ";" : a \in ScriptStatements}
ScriptTexts ==
    EmptyScripts \cup SingleScripts \cup SeparatedScripts \cup AdjacentScripts

\* parse_script(sql), called by a thread: the statements it returns, or the
\* SqlSyntaxError it raises
ParseScript(t, text) ==
    /\ pc[t] = "idle"
    /\ sql' = [sql EXCEPT ![t] = text]
    /\ \E p \in {parse_script(text)} :
           /\ result' = [result EXCEPT ![t] = p.err]
           /\ cur' = [cur EXCEPT ![t] = IF Bad(p) THEN NoStmt ELSE Script(p.v)]
    /\ UNCHANGED <<catalog, catalogFile, dataFiles, metaFiles, lock, pc, ops, rid, pre,
                   call>>

NextScript == \E t \in Threads : \E text \in ScriptTexts : ParseScript(t, text)

SpecScript == Init /\ [][NextScript]_vars

\* the thread has called parse_script
Asked(t) == cur[t] # NoStmt \/ Failed(result[t])
\* the statements of a script that parse_script has returned
Returned(t, n) == result[t] = NoErr /\ cur[t].kind = "Script" /\ Len(cur[t].stmts) = n

\* C37: parse_script returns no statement for a script of semicolons only,
\* one for a statement with or without its semicolon, two for two statements
\* with semicolons between them, and raises SqlSyntaxError for two statements
\* with no semicolon between them.
C37_ScriptsSeparatedBySemicolons ==
    \A t \in Threads : Asked(t) =>
        /\ sql[t] \in EmptyScripts => Returned(t, 0)
        /\ sql[t] \in SingleScripts => Returned(t, 1)
        /\ sql[t] \in SeparatedScripts => Returned(t, 2)
        /\ sql[t] \in AdjacentScripts => result[t].err = "SqlSyntaxError"

(***************************************************************************)
(* INSERT statements whose column list and VALUES list differ in length,   *)
(* given to Database.execute as text, on one and on several lines.         *)
(***************************************************************************)
MismatchedInserts ==
    {"INSERT INTO t (a, b) VALUES (1);",
     "INSERT INTO t (a) VALUES (1, 2)",
     "INSERT INTO t (a) VALUES (1, 2)   ;",
     "INSERT INTO t\n (a, b)\n VALUES (1,\n 2, 3)\n;"}

MismatchTexts ==
    MismatchedInserts \cup
    {"CREATE TABLE t (a INTEGER, b INTEGER);",
     "INSERT INTO t (a, b) VALUES (1, 2);",
     "INSERT INTO t (b) VALUES (3)"}

NextMismatch ==
    \E t \in Threads :
        \/ Acquire(t)
        \/ \E text \in MismatchTexts : Database_execute(t, text)
        \/ Apply(t)
        \/ Release(t)

SpecMismatch == Init /\ [][NextMismatch]_vars

\* where the closing parenthesis of the VALUES list is: the last ")" of an
\* INSERT statement
ClosingParen(text) ==
    CHOOSE j \in 1..Len(text) :
        /\ CharAt(text, j) = ")"
        /\ \A k \in (j + 1)..Len(text) : CharAt(text, k) # ")"

\* C38: an INSERT whose column list and VALUES list differ in length raises
\* SqlSyntaxError at the position of the closing parenthesis of the VALUES
\* list, and nothing is executed: no write is planned and the catalog and
\* the files are as they were.
C38_MismatchAtClosingParen ==
    \A t \in Threads :
        (pc[t] = "release" /\ sql[t] \in MismatchedInserts) =>
            /\ result[t].err = "SqlSyntaxError"
            /\ result[t].msg = "Number of columns does not match number of values"
            /\ result[t].position = cur_pos(sql[t], ClosingParen(sql[t]))
            /\ ops[t] = <<>>
            /\ pre[t] = [cat |-> catalog, disk |-> TheDisk]

(***************************************************************************)
(* The list of a user's transactions and the dashboard, while categories   *)
(* and transactions are created.                                           *)
(***************************************************************************)
ListingCalls ==
    {[fn |-> "create_category", step |-> 1, user_id |-> 1, name |-> "a", category_id |-> 0],
     [fn |-> "create_transaction", step |-> 1, user_id |-> 1, category_id |-> 1,
      amount_cents |-> 5, tx_id |-> 0],
     [fn |-> "list_transactions_for_user", step |-> 1, user_id |-> 1, ym |-> Null],
     [fn |-> "list_transactions_for_user", step |-> 1, user_id |-> 1, ym |-> StrV("2024-01")],
     [fn |-> "compute_dashboard", step |-> 1, user_id |-> 1, ym |-> StrV("2024-01")]}

NextListing ==
    \E t \in Threads :
        \/ \E c \in ListingCalls : Request(t, c)
        \/ Enter(t)
        \/ Run(t)
        \/ Apply(t)
        \/ Resume(t)

SpecListing == StartedBoth /\ [][NextListing]_vars

\* the live transactions of a user, each with the name of its category
JoinedWithCategory(user_id) ==
    {<<Get(tx, "id"), Get(tx, "amount_cents"), Get(tx, "category_id"), Get(cat, "name")>> :
        <<tx, cat>> \in
            {p \in Range(Live("transactions")) \X Range(Live("categories")) :
                /\ Get(p[1], "user_id") = IntV(user_id)
                /\ Get(p[1], "category_id") = Get(p[2], "id")}}

\* C39: the SELECT of list_transactions_for_user, called on its own or by
\* compute_dashboard, returns a result and raises nothing; without a month
\* its rows are the user's live transactions, each with its category's name.
C39_ListingReturns ==
    \A t \in Threads :
        (call[t].fn \in {"list_transactions_for_user", "compute_dashboard"}
            /\ pc[t] = "release") =>
            /\ ~Failed(result[t])
            /\ sql[t] = list_transactions_sql(call[t].user_id, Null) =>
                   Range(Rows(result[t])) = JoinedWithCategory(call[t].user_id)

====
